---------------------------- MODULE Spec2Model ----------------------------
(***************************************************************************)
(* A model of the cyber-node scheduler of sum-catnip/cyberspace:           *)
(* the hex board, the node instances placed on it, their port wiring, the  *)
(* heartbeat / activation request / scheduler / evaluator systems of the   *)
(* FixedUpdate schedule, and the reachability pruning of the Update        *)
(* schedule.  The systems of one schedule are registered without ordering  *)
(* (src/main.rs:43-66, src/nodes.rs:272-297), so within a schedule pass    *)
(* each system runs once, in an order the model leaves open.  Commands     *)
(* (Commands::add, despawn, spawn) are applied when the schedule ends.     *)
(***************************************************************************)
EXTENDS Integers, Sequences, FiniteSets, TLC

VARIABLES
    tiles,      \* Map.storage + TileType of every board cell
    hearts,     \* HexPos of the entities that carry a Heartbeat
    meta,       \* MetaLink -> CyberNodes of every node instance (keyed by cell)
    cfg,        \* PortCfg.inputs of every node instance: direction -> port name
    cstate,     \* CyberState of every node instance
    enemies,    \* the TargetableEntity entities that exist
    tickEvts,   \* Tick events request_nodes has not read yet
    dirty,      \* Changed<TileType> since detect_changes last ran
    tileEvts,   \* TileChanged events disable_disconnected has not read yet
    queued,     \* commands queued by tick_nodes in the running pass
    evts,       \* TickNode<T> events the evaluator of T has not read yet
    phase,      \* the schedule that is running
    todo,       \* the systems of that schedule that have not run yet
    panicked,   \* a system panicked: the application is gone
    edits,      \* player edits made so far
    lastSys,    \* history: the system that took the last step
    pre,        \* history: cstate before the last step
    lastFx,     \* history: the nodes whose evaluator had a side effect in the last step
    lastN,      \* history: the events the last step read
    fired,      \* history: the nodes dispatched by the last scheduler pass
    firedPrev,  \* history: the nodes dispatched by the scheduler pass before it
    doneNow,    \* history: the nodes an evaluator set to Done in the running pass
    frameEdit,  \* history: the edit made in the PreUpdate of the running frame
    stable,     \* history: a heartbeat was requested, and no edit or pruning since
    lastBind,   \* history: the pick grid_pick handled in the last step, if it was one
    counters,   \* PlasmaCounter of the node instances that carry one
    hits,       \* the Health each targetable entity lost in the last step
    charges,    \* history: the events plasma_tick has read so far
    raised,     \* history: the cells an evaluator changed in the last step, with the
                \* TileType they had
    health,     \* Health of the heart, node and terrain entities
    activity,   \* EnemyActivity::Attacking: the entity each attacking enemy attacks
    rip,        \* Rip events open_death has not read yet
    appstate,   \* State<Appstate> (cur) and NextState<Appstate> (next)
    beat,       \* the duration of each heart's Heartbeat timer
    pulse       \* history: for each node under observation, the runs of its evaluator
                \* since the last Tick was sent

vars == <<tiles, hearts, meta, cfg, cstate, enemies, tickEvts, dirty, tileEvts,
          queued, evts, phase, todo, panicked, edits, lastSys, pre, lastFx, lastN,
          fired, firedPrev, doneNow, frameEdit, stable, lastBind, counters, hits, charges,
          raised, health, activity, rip, appstate, beat, pulse>>

-----------------------------------------------------------------------------
(* Bounds of the model *)

\* radius of the board (the program builds radius 10, src/main.rs:247)
Rad == 2
\* Tick events that may wait unread
MaxTick == 2
\* player edits (purchase, removal, port binding) in one run
MaxEdits == 4

-----------------------------------------------------------------------------
(* Hex arithmetic *)

ZERO == <<0, 0>>

\* Hex::all_neighbors, in the order of Hex::NEIGHBORS_COORDS
NeighborSeq == << <<1, 0>>, <<1, -1>>, <<0, -1>>, <<-1, 0>>, <<-1, 1>>, <<0, 1>> >>

Dirs == {NeighborSeq[i] : i \in 1..6}

Add(h, d) == <<h[1] + d[1], h[2] + d[2]>>

Abs(x) == IF x < 0 THEN -x ELSE x

Max2(a, b) == IF a >= b THEN a ELSE b

\* Hex::distance_to(ZERO)
Length(h) == Max2(Abs(h[1]), Max2(Abs(h[2]), Abs(h[1] + h[2])))

\* HexagonalMap::get(h) is Some
InBounds(h) == Length(h) <= Rad

Board == {h \in (-Rad..Rad) \X (-Rad..Rad) : InBounds(h)}

-----------------------------------------------------------------------------
(* Values and node states *)

EmptyV == [ty |-> "Empty", n |-> 0]
NumV(x) == [ty |-> "Number", n |-> x]
EntV(e) == [ty |-> "Entity", n |-> e]
VecV == [ty |-> "Vec", n |-> 0]
\* a vector whose components the model follows
Vec2V(x, y) == [ty |-> "Vec", n |-> 0, x |-> x, y |-> y]
ListV(l) == [ty |-> "List", n |-> 0, l |-> l]

Idle == [t |-> "Idle", ok |-> FALSE, v |-> EmptyV]
ActivationRequest == [t |-> "ActivationRequest", ok |-> FALSE, v |-> EmptyV]
Triggered == [t |-> "Triggered", ok |-> FALSE, v |-> EmptyV]
Disabled == [t |-> "Disabled", ok |-> FALSE, v |-> EmptyV]
DoneOk(v) == [t |-> "Done", ok |-> TRUE, v |-> v]
DoneErr == [t |-> "Done", ok |-> FALSE, v |-> EmptyV]

IsDoneOk(s) == s.t = "Done" /\ s.ok

\* no entity lost Health
NoHits == << >>

\* const DMG: f32 = 15.
DMG == 15

\* the node kinds the player buys in this model, and the input ports the
\* player wires
Kinds == {"ClosestEntity", "Lazor"}

Ports(k) == CASE k = "Lazor" -> {"target"}
              [] k = "Plasma" -> {"target", "threshold"}
              [] OTHER -> {}

\* the cells the player clicks
ClickCells == {<<1, 0>>, <<2, 0>>}

\* the targetable entities that come and go
EnemyIds == {1}

NodeCells == {h \in Board : tiles[h] = "CyberNode"}

-----------------------------------------------------------------------------
(* Small function helpers *)

Without(f, k) == [x \in (DOMAIN f) \ {k} |-> f[x]]

With(f, k, val) == [x \in (DOMAIN f) \cup {k} |-> IF x = k THEN val ELSE f[x]]

\* f without the keys in S
Drop(f, S) == [x \in (DOMAIN f) \ S |-> f[x]]

\* the orders in which a query may iterate over a set of entities
Orders(S) == {s \in [1..Cardinality(S) -> S] : \A i, j \in DOMAIN s : i # j => s[i] # s[j]}

\* the events of the despawned nodes in S can never be matched again
KillAll(ev, S) == [k \in DOMAIN ev |->
                    [i \in DOMAIN ev[k] |->
                       IF ev[k][i].c \in S THEN [ev[k][i] EXCEPT !.live = FALSE] ELSE ev[k][i]]]

-----------------------------------------------------------------------------
(* Health, the heart's timer and the application state *)

\* Health(10.): what the heart, a bought node and a projected terrain start with
StartHealth == 10

\* The entity a tile refers to, TileType::Heart(e), CyberNode { e, .. } or
\* Terrain(e): an entity is named by the kind of occupant it is and the cell it
\* was spawned for.
OccupantOf(tl, c) == <<tl[c], c>>

Occupant(c) == OccupantOf(tiles, c)

HeartAt(h) == <<"Heart", h>>

NodeAt(c) == <<"CyberNode", c>>

\* the cells of the entities in a set that are occupants of one kind
CellsOf(kind, es) == {e[2] : e \in {x \in es : x[1] = kind}}

\* every occupant of the board at its first Health
FullHealth(tl) ==
    [e \in {OccupantOf(tl, c) : c \in {h \in Board : tl[h] # "Unoccupied"}} |-> StartHealth]

\* Timer::new(Duration::from_secs(10), ..): a duration is a fraction of seconds
\* in lowest terms
FirstBeat == <<10, 1>>

RECURSIVE Gcd(_, _)
Gcd(a, b) == IF b = 0 THEN a ELSE Gcd(b, a % b)

\* Duration::from_secs_f32(100. / hp.0), for hp.0 > 0
Period(hp) == <<100 \div Gcd(100, hp), hp \div Gcd(100, hp)>>

\* Appstate::Game, no transition queued
InGame == [cur |-> "Game", next |-> "None"]

\* the occupants destroy_nodes removes: the tiles whose entity has Health <= 0
Dead == {e[2] : e \in {x \in DOMAIN health : health[x] <= 0 /\ Occupant(x[2]) = x}}

-----------------------------------------------------------------------------
(* PreUpdate: destroy_nodes, and the player's edits.  One edit per frame. *)

\* the evaluator system of each node kind
TickSystem(k) == CASE k = "ClosestEntity" -> "closest_tick"
                   [] k = "Lazor" -> "lazor_tick"
                   [] k = "EntityPos" -> "entity_pos_tick"
                   [] k = "EntityDirection" -> "entity_dir_tick"
                   [] k = "VectorNeg" -> "vecneg_tick"
                   [] k = "Orbital" -> "orbital_tick"
                   [] k = "NumberSub" -> "numsub_tick"
                   [] k = "NumberMul" -> "nummul_tick"
                   [] k = "VectorMul" -> "vecmul_tick"
                   [] k = "List" -> "list_tick"
                   [] k = "Debug" -> "debug_tick"
                   [] k = "Plasma" -> "plasma_tick"
                   [] k = "Project" -> "project_tick"

\* The systems of the enemy plugin that touch the Health of the occupants.
\* attack does nothing unless the entity an enemy attacks exists, despawn
\* nothing unless an entity has Health <= 0, which only attack brings about.
\* The enemy stays where it attacks, and the HealTimer of heal_heart (10 s) does
\* not finish while it does.
LifeSystems ==
    LET attacked == \E e \in DOMAIN activity : activity[e] \in DOMAIN health IN
       (IF attacked THEN {"attack"} ELSE {})
          \cup (IF attacked \/ \E e \in DOMAIN health : health[e] <= 0
                  THEN {"despawn"} ELSE {})

\* The systems of a FixedUpdate pass.  An evaluator that has no unread event
\* does nothing wherever it runs in the pass (events are only sent when the
\* pass ends), so it is left out of the interleaving.
FixedSystems(ev) == {"heartbeat", "request_nodes", "tick_nodes"}
                       \cup {TickSystem(k) : k \in {x \in DOMAIN ev : ev[x] # << >>}}
                       \cup LifeSystems

\* destroy_nodes does nothing unless the entity of a tile has Health <= 0
PreSystems == IF Dead # {} THEN {"destroy_nodes"} ELSE {}

\* open_death does nothing unless a Rip event is unread
UpdateSystems == {"detect_changes", "disable_disconnected"}
                    \cup (IF rip > 0 THEN {"open_death"} ELSE {})

\* open_shop: the shop opens for an unoccupied tile next to the heart or to a
\* node that is not Disabled
ShopOpens(c) ==
    /\ tiles[c] = "Unoccupied"
    /\ \E i \in 1..6 :
          LET h == Add(c, NeighborSeq[i]) IN
             /\ InBounds(h)
             /\ \/ tiles[h] = "Heart"
                \/ tiles[h] = "CyberNode" /\ cstate[h] # Disabled

\* no pick was handled
NoBind == [c |-> <<0, 0>>, port |-> "", h |-> <<0, 0>>, old |-> << >>]

\* The PreUpdate schedule ends after the edit; the StateTransition schedule
\* follows it, and does nothing unless a next state is queued.
EndPreUpdate(sys, ev) ==
    /\ todo = {}
    /\ phase' = IF appstate.next = "None" THEN "FixedUpdate" ELSE "StateTransition"
    /\ todo' = IF appstate.next = "None" THEN FixedSystems(ev) ELSE {}
    /\ lastSys' = sys
    /\ pre' = cstate
    /\ lastFx' = {}
    /\ hits' = NoHits
    /\ raised' = << >>
    /\ lastN' = 0
    /\ doneNow' = {}
    /\ frameEdit' = sys
    /\ stable' = IF sys \in {"tile_purchased", "remove_node", "grid_pick"} THEN FALSE ELSE stable

\* tile_purchased: the tile becomes a CyberNode and a node entity is spawned Disabled
TilePurchased(c, k) ==
    /\ phase = "PreUpdate" /\ ~panicked /\ edits < MaxEdits
    /\ ShopOpens(c)
    /\ tiles' = [tiles EXCEPT ![c] = "CyberNode"]
    /\ meta' = With(meta, c, k)
    /\ cfg' = With(cfg, c, << >>)
    /\ cstate' = With(cstate, c, Disabled)
    /\ health' = With(health, NodeAt(c), StartHealth)
    /\ dirty' = TRUE
    /\ edits' = edits + 1
    /\ EndPreUpdate("tile_purchased", evts)
    /\ lastBind' = NoBind
    /\ UNCHANGED <<hearts, counters, charges, pulse, activity, rip, appstate, beat, enemies, tickEvts, tileEvts, queued, evts, panicked, fired, firedPrev>>

\* remove_node: a right click sets the tile to Unoccupied, whatever it held; the
\* entity of the tile is despawned if it is a node
RemoveNode(c) ==
    /\ phase = "PreUpdate" /\ ~panicked /\ edits < MaxEdits
    /\ tiles' = [tiles EXCEPT ![c] = "Unoccupied"]
    /\ LET gone == IF tiles[c] = "CyberNode" THEN {c} ELSE {} IN
          /\ meta' = Drop(meta, gone)
          /\ cfg' = Drop(cfg, gone)
          /\ cstate' = Drop(cstate, gone)
          /\ counters' = Drop(counters, gone)
          /\ health' = Drop(health, {NodeAt(x) : x \in gone})
          /\ pulse' = Drop(pulse, gone)
          /\ evts' = KillAll(evts, gone)
          /\ EndPreUpdate("remove_node", KillAll(evts, gone))
    /\ dirty' = TRUE
    /\ edits' = edits + 1
    /\ lastBind' = NoBind
    /\ UNCHANGED <<hearts, charges, activity, rip, appstate, beat, enemies, tickEvts, tileEvts,
                   queued, panicked, fired, firedPrev>>

\* grid_pick that leaves the binding the port had in place
BindPortKeep(inputs, h, port) ==
    IF h \in DOMAIN inputs THEN inputs ELSE With(inputs, h, port)

\* grid_pick: the binding the port had is removed first; the new one is
\* installed unless the direction is taken
BindPort(inputs, h, port) ==
    LET old == {d \in DOMAIN inputs : inputs[d] = port}
        cleared == IF old = {} THEN inputs ELSE Without(inputs, CHOOSE d \in old : TRUE)
    IN  IF h \in DOMAIN cleared THEN cleared ELSE With(cleared, h, port)

GridPick(c, port, h) ==
    /\ phase = "PreUpdate" /\ ~panicked /\ edits < MaxEdits
    /\ c \in NodeCells
    /\ port \in Ports(meta[c])
    /\ cfg' = [cfg EXCEPT ![c] = BindPort(cfg[c], h, port)]
    /\ edits' = edits + 1
    /\ EndPreUpdate("grid_pick", evts)
    /\ lastBind' = [c |-> c, port |-> port, h |-> h, old |-> cfg[c]]
    /\ UNCHANGED <<tiles, hearts, counters, charges, pulse, health, activity, rip, appstate, beat, meta, cstate, enemies, tickEvts, dirty, tileEvts,
                   queued, evts, panicked, fired, firedPrev>>

\* the enemy subsystem: a targetable entity is spawned or despawned
EnemyStep(e) ==
    /\ phase = "PreUpdate" /\ ~panicked
    /\ enemies' = IF e \in enemies THEN enemies \ {e} ELSE enemies \cup {e}
    /\ EndPreUpdate("enemy", evts)
    /\ lastBind' = NoBind
    /\ UNCHANGED <<tiles, hearts, counters, charges, pulse, health, activity, rip, appstate, beat, meta, cfg, cstate, tickEvts, dirty, tileEvts,
                   queued, evts, panicked, edits, fired, firedPrev>>

NoEdit ==
    /\ phase = "PreUpdate" /\ ~panicked
    /\ EndPreUpdate("none", evts)
    /\ lastBind' = NoBind
    /\ UNCHANGED <<tiles, hearts, counters, charges, pulse, health, activity, rip, appstate, beat, meta, cfg, cstate, enemies, tickEvts, dirty, tileEvts,
                   queued, evts, panicked, edits, fired, firedPrev>>

-----------------------------------------------------------------------------
(* FixedUpdate: heartbeat, request_nodes, tick_nodes *)

Ran(sys) ==
    /\ phase = "FixedUpdate" /\ ~panicked
    /\ sys \in todo
    /\ todo' = todo \ {sys}
    /\ phase' = phase
    /\ lastSys' = sys
    /\ pre' = cstate
    /\ frameEdit' = frameEdit
    /\ lastBind' = NoBind

\* heartbeat: a heart whose timer just finished sends Tick and sets the
\* duration of the timer to 100 / Health; Duration::from_secs_f32 panics on a
\* value that is negative or not finite
\* the runs of an evaluator that are told apart between two Ticks
MaxSince == 2

\* tick.send(Tick(e)), as the observed nodes see it
Pulsed(p) == [c \in DOMAIN p |-> 0]

\* the events of the nodes that exist among the first n of q, for the node at c
Runs(q, n, c) == Cardinality({i \in 1..n : q[i].c = c /\ q[i].live})

\* the evaluator has read the first n events of q
Served(p, q, n) ==
    [c \in DOMAIN p |-> IF p[c] + Runs(q, n, c) < MaxSince
                           THEN p[c] + Runs(q, n, c) ELSE MaxSince]

Heartbeat ==
    /\ Ran("heartbeat")
    /\ \/ \E h \in hearts :
             /\ tickEvts < MaxTick
             /\ tickEvts' = tickEvts + 1
             /\ pulse' = Pulsed(pulse)
             /\ IF health[HeartAt(h)] > 0
                   THEN beat' = [beat EXCEPT ![h] = Period(health[HeartAt(h)])]
                        /\ panicked' = FALSE
                   ELSE beat' = beat /\ panicked' = TRUE
       \/ tickEvts' = tickEvts /\ beat' = beat /\ panicked' = panicked /\ pulse' = pulse
    /\ lastFx' = {}
    /\ hits' = NoHits
    /\ raised' = << >>
    /\ lastN' = 0
    /\ UNCHANGED <<tiles, hearts, counters, charges, health, activity, rip, appstate, meta, cfg,
                   cstate, enemies, dirty, tileEvts,
                   queued, evts, edits, fired, firedPrev, doneNow, stable>>

\* request_nodes without the test for Disabled
RequestOnceAll(st) == [c \in DOMAIN st |-> ActivationRequest]

\* request_nodes that withdraws a request it finds standing
RequestOnceToggle(st) ==
    [c \in DOMAIN st |-> IF st[c] = Disabled THEN st[c]
                          ELSE IF st[c] = ActivationRequest THEN Idle
                          ELSE ActivationRequest]

\* the body of request_nodes for one Tick event
RequestOnce(st) ==
    [c \in DOMAIN st |-> IF st[c] # Disabled THEN ActivationRequest ELSE st[c]]

RECURSIVE RequestAll(_, _)
RequestAll(n, st) == IF n = 0 THEN st ELSE RequestAll(n - 1, RequestOnce(st))

RequestNodes ==
    /\ Ran("request_nodes")
    /\ cstate' = RequestAll(tickEvts, cstate)
    /\ tickEvts' = 0
    /\ lastFx' = {}
    /\ hits' = NoHits
    /\ raised' = << >>
    /\ lastN' = tickEvts
    /\ stable' = IF tickEvts > 0 THEN TRUE ELSE stable
    /\ UNCHANGED <<tiles, hearts, counters, charges, pulse, health, activity, rip, appstate, beat, meta, cfg, enemies, dirty, tileEvts,
                   queued, evts, panicked, edits, fired, firedPrev, doneNow>>

\* tick_nodes that takes Done(Err(..)) for a result
SatisfiedAnyDone(c, st) ==
    \A h \in DOMAIN cfg[c] :
        LET n == Add(c, h) IN
           /\ InBounds(n)
           /\ tiles[n] = "CyberNode"
           /\ n \in DOMAIN st
           /\ st[n].t = "Done"

\* tick_nodes that waits for at least one bound input
SatisfiedSome(c, st) ==
    /\ DOMAIN cfg[c] # {}
    /\ \A h \in DOMAIN cfg[c] :
          LET n == Add(c, h) IN
             /\ InBounds(n)
             /\ tiles[n] = "CyberNode"
             /\ n \in DOMAIN st
             /\ IsDoneOk(st[n])

\* tick_nodes that only looks for a node behind each bound direction
SatisfiedBound(c, st) ==
    \A h \in DOMAIN cfg[c] :
        LET n == Add(c, h) IN
           /\ InBounds(n)
           /\ tiles[n] = "CyberNode"

\* tick_nodes: every bound direction holds an in-bounds CyberNode tile whose
\* node is Done(Ok(..))
Satisfied(c, st) ==
    \A h \in DOMAIN cfg[c] :
        LET n == Add(c, h) IN
           /\ InBounds(n)
           /\ tiles[n] = "CyberNode"
           /\ n \in DOMAIN st
           /\ IsDoneOk(st[n])

\* the loop of tick_nodes over the nodes, in the order the query yields them
RECURSIVE TickLoop(_, _, _)
TickLoop(order, st, q) ==
    IF order = << >> THEN [st |-> st, q |-> q]
    ELSE LET c == Head(order) IN
         IF st[c] # ActivationRequest THEN TickLoop(Tail(order), st, q)
         ELSE IF Satisfied(c, st)
              THEN TickLoop(Tail(order), [st EXCEPT ![c] = Triggered],
                            Append(q, [c |-> c, kind |-> meta[c]]))
              ELSE TickLoop(Tail(order), st, q)

TickNodes ==
    /\ Ran("tick_nodes")
    /\ \E order \in Orders(DOMAIN cstate) :
          LET r == TickLoop(order, cstate, queued) IN
             /\ cstate' = r.st
             /\ queued' = r.q
    /\ fired' = {c \in DOMAIN cstate : cstate[c] = ActivationRequest /\ cstate'[c] = Triggered}
    /\ firedPrev' = fired
    /\ lastFx' = {}
    /\ hits' = NoHits
    /\ raised' = << >>
    /\ lastN' = 0
    /\ UNCHANGED <<tiles, hearts, counters, charges, pulse, health, activity, rip, appstate, beat, meta, cfg, enemies, tickEvts, dirty, tileEvts,
                   evts, panicked, edits, doneNow, stable>>

-----------------------------------------------------------------------------
(* FixedUpdate: the evaluators *)

NoCell == <<0, 0>>

\* port_by_name: the node behind the direction bound to the port of that name.
\* Map::fetch_panic panics off the board, unreachable!() on a tile that is no
\* CyberNode.
PortByName(name, pos) ==
    LET hs == {h \in DOMAIN cfg[pos] : cfg[pos][h] = name} IN
    IF hs = {} THEN [k |-> "none", c |-> NoCell]
    ELSE LET n == Add(pos, CHOOSE h \in hs : TRUE) IN
         IF ~InBounds(n) THEN [k |-> "panic", c |-> NoCell]
         ELSE IF tiles[n] # "CyberNode" THEN [k |-> "panic", c |-> NoCell]
         ELSE [k |-> "some", c |-> n]

\* fetch_port_data: Ok(v) when the port's node is Done(Ok(v)), Err(()) otherwise
FetchPortData(name, pos, st) ==
    LET p == PortByName(name, pos) IN
    IF p.k = "panic" THEN [k |-> "panic", v |-> EmptyV]
    ELSE IF p.k = "none" THEN [k |-> "err", v |-> EmptyV]
    ELSE IF p.c \notin DOMAIN st THEN [k |-> "err", v |-> EmptyV]
    ELSE IF IsDoneOk(st[p.c]) THEN [k |-> "ok", v |-> st[p.c].v]
    ELSE [k |-> "err", v |-> EmptyV]

\* what one turn of an evaluator's event loop did: the node states it leaves,
\* whether it had a side effect, how it left the turn, and what it changed
\* besides: the Health it took (hit), the cell it turned into Terrain (tile,
\* NoCell: none), the PlasmaCounter it stored (cnt, -1: none)
Outcome(st, fx, ctl) ==
    [st |-> st, fx |-> fx, ctl |-> ctl, hit |-> NoHits, tile |-> NoCell, cnt |-> -1]

\* lazor_tick, one event
LazorOne(ev, st) ==
    IF ~ev.live THEN Outcome(st, FALSE, "return")
    ELSE LET p == PortByName("target", ev.c) IN
         IF p.k = "panic" THEN Outcome(st, FALSE, "panic")
         ELSE IF p.k = "none"
              THEN Outcome([st EXCEPT ![ev.c] = DoneErr], FALSE, "return")
         ELSE IF p.c \notin DOMAIN st THEN Outcome(st, FALSE, "continue")
         ELSE IF ~(IsDoneOk(st[p.c]) /\ st[p.c].v.ty = "Entity")
              THEN Outcome(st, FALSE, "continue")
         ELSE IF st[p.c].v.n \notin enemies
              THEN Outcome([st EXCEPT ![ev.c] = DoneErr], FALSE, "continue")
         ELSE [Outcome([st EXCEPT ![ev.c] = DoneOk(EmptyV)], TRUE, "continue")
                 EXCEPT !.hit = (st[p.c].v.n :> DMG)]

\* closest_tick, one event; found is what find_map over the targetable
\* entities in range returned (0: None)
ClosestOne(ev, st, found) ==
    IF ~ev.live THEN Outcome(st, FALSE, "panic")
    ELSE IF found = 0
         THEN Outcome([st EXCEPT ![ev.c] = DoneErr], FALSE, "continue")
         ELSE Outcome([st EXCEPT ![ev.c] = DoneOk(EntV(found))], FALSE, "continue")

\* entity_pos_tick, one event
EntityPosOne(ev, st) ==
    IF ~ev.live THEN Outcome(st, FALSE, "return")
    ELSE LET p == PortByName("target", ev.c) IN
         IF p.k = "panic" THEN Outcome(st, FALSE, "panic")
         ELSE IF p.k = "none"
              THEN Outcome([st EXCEPT ![ev.c] = DoneErr], FALSE, "return")
         ELSE IF p.c \notin DOMAIN st THEN Outcome(st, FALSE, "continue")
         ELSE IF ~(IsDoneOk(st[p.c]) /\ st[p.c].v.ty = "Entity")
              THEN Outcome(st, FALSE, "continue")
         ELSE IF st[p.c].v.n \notin enemies
              THEN Outcome([st EXCEPT ![ev.c] = DoneErr], FALSE, "continue")
         ELSE Outcome([st EXCEPT ![ev.c] = DoneOk(VecV)], FALSE, "continue")

\* entity_dir_tick, one event
EntityDirOne(ev, st) ==
    IF ~ev.live THEN Outcome(st, FALSE, "return")
    ELSE LET r == FetchPortData("target", ev.c, st) IN
         IF r.k = "panic" THEN Outcome(st, FALSE, "panic")
         ELSE IF ~(r.k = "ok" /\ r.v.ty = "Entity")
              THEN Outcome([st EXCEPT ![ev.c] = DoneErr], FALSE, "return")
         ELSE IF r.v.n \notin enemies THEN Outcome(st, FALSE, "continue")
         ELSE Outcome([st EXCEPT ![ev.c] = DoneOk(VecV)], FALSE, "continue")

\* vecneg_tick, one event
VecNegOne(ev, st) ==
    IF ~ev.live THEN Outcome(st, FALSE, "return")
    ELSE LET r == FetchPortData("vector", ev.c, st) IN
         IF r.k = "panic" THEN Outcome(st, FALSE, "panic")
         ELSE IF ~(r.k = "ok" /\ r.v.ty = "Vec") THEN Outcome(st, FALSE, "continue")
         ELSE Outcome([st EXCEPT ![ev.c] = DoneOk(VecV)], FALSE, "continue")

\* orbital_tick, one event; the strike it spawns is its side effect
OrbitalOne(ev, st) ==
    IF ~ev.live THEN Outcome(st, FALSE, "continue")
    ELSE LET r == FetchPortData("target", ev.c, st) IN
         IF r.k = "panic" THEN Outcome(st, FALSE, "panic")
         ELSE IF ~(r.k = "ok" /\ r.v.ty = "Vec") THEN Outcome(st, FALSE, "continue")
         ELSE Outcome([st EXCEPT ![ev.c] = DoneOk(EmptyV)], TRUE, "continue")

\* let ports = ["a", "b", "c", "d", "e"]
SlotNames == <<"a", "b", "c", "d", "e">>

\* ports.iter().flat_map(|p| fetch_port_data(p, ..).ok()): the values of the
\* slots from the i-th on that resolve, in the order of the slot names
RECURSIVE SlotVals(_, _, _)
SlotVals(i, pos, st) ==
    IF i > Len(SlotNames) THEN [panic |-> FALSE, vals |-> << >>]
    ELSE LET r == FetchPortData(SlotNames[i], pos, st) IN
         IF r.k = "panic" THEN [panic |-> TRUE, vals |-> << >>]
         ELSE LET rest == SlotVals(i + 1, pos, st) IN
              [panic |-> rest.panic,
               vals |-> IF r.k = "ok" THEN <<r.v>> \o rest.vals ELSE rest.vals]

\* .flat_map(|v| match v { Val::Number(x) => Some(x), _ => None })
RECURSIVE Numbers(_)
Numbers(vals) ==
    IF vals = << >> THEN << >>
    ELSE IF Head(vals).ty = "Number" THEN <<Head(vals).n>> \o Numbers(Tail(vals))
    ELSE Numbers(Tail(vals))

\* .flat_map(|v| match v { Val::Vec(x) => Some(x), _ => None })
RECURSIVE Vectors(_)
Vectors(vals) ==
    IF vals = << >> THEN << >>
    ELSE IF Head(vals).ty = "Vec"
         THEN << <<Head(vals).x, Head(vals).y>> >> \o Vectors(Tail(vals))
    ELSE Vectors(Tail(vals))

RECURSIVE SubFrom(_, _)
SubFrom(acc, xs) == IF xs = << >> THEN acc ELSE SubFrom(acc - Head(xs), Tail(xs))

\* a subtraction that folds from the right
RECURSIVE NumSubRight(_)
NumSubRight(xs) ==
    IF xs = << >> THEN 0
    ELSE IF Len(xs) = 1 THEN Head(xs)
    ELSE Head(xs) - NumSubRight(Tail(xs))

\* .reduce(|acc, v| acc - v).unwrap_or(0.)
NumSub(xs) == IF xs = << >> THEN 0 ELSE SubFrom(Head(xs), Tail(xs))

RECURSIVE MulFrom(_, _)
MulFrom(acc, xs) == IF xs = << >> THEN acc ELSE MulFrom(acc * Head(xs), Tail(xs))

\* .reduce(|acc, v| acc * v).unwrap_or(0.)
NumMul(xs) == IF xs = << >> THEN 0 ELSE MulFrom(Head(xs), Tail(xs))

\* Vec2 * Vec2
VMul(u, v) == <<u[1] * v[1], u[2] * v[2]>>

RECURSIVE VMulFrom(_, _)
VMulFrom(acc, xs) == IF xs = << >> THEN acc ELSE VMulFrom(VMul(acc, Head(xs)), Tail(xs))

\* a product of vectors that starts from Vec2::ONE and keeps it for no input
VecMulFromOne(xs) == VMulFrom(<<1, 1>>, xs)

\* .reduce(|acc, v| acc * v).unwrap_or(Vec2::splat(0.))
VecMul(xs) == IF xs = << >> THEN <<0, 0>> ELSE VMulFrom(Head(xs), Tail(xs))

\* numsub_tick, one event
NumSubOne(ev, st) ==
    IF ~ev.live THEN Outcome(st, FALSE, "return")
    ELSE LET r == SlotVals(1, ev.c, st) IN
         IF r.panic THEN Outcome(st, FALSE, "panic")
         ELSE Outcome([st EXCEPT ![ev.c] = DoneOk(NumV(NumSub(Numbers(r.vals))))],
                      FALSE, "continue")

\* nummul_tick, one event
NumMulOne(ev, st) ==
    IF ~ev.live THEN Outcome(st, FALSE, "return")
    ELSE LET r == SlotVals(1, ev.c, st) IN
         IF r.panic THEN Outcome(st, FALSE, "panic")
         ELSE Outcome([st EXCEPT ![ev.c] = DoneOk(NumV(NumMul(Numbers(r.vals))))],
                      FALSE, "continue")

\* vecmul_tick, one event
VecMulOne(ev, st) ==
    IF ~ev.live THEN Outcome(st, FALSE, "return")
    ELSE LET r == SlotVals(1, ev.c, st) IN
         IF r.panic THEN Outcome(st, FALSE, "panic")
         ELSE LET v == VecMul(Vectors(r.vals)) IN
              Outcome([st EXCEPT ![ev.c] = DoneOk(Vec2V(v[1], v[2]))], FALSE, "continue")

\* debug_tick, one event: the inputs are only logged
DebugOne(ev, st) ==
    IF ~ev.live THEN Outcome(st, FALSE, "return")
    ELSE LET r == SlotVals(1, ev.c, st) IN
         IF r.panic THEN Outcome(st, FALSE, "panic")
         ELSE Outcome([st EXCEPT ![ev.c] = DoneOk(EmptyV)], FALSE, "continue")

\* a list that keeps a List input as one element
Pushed(val) == IF val.ty = "Empty" THEN << >> ELSE <<val>>

\* match val { .. }: what one input value adds to the list
Flattened(val) ==
    IF val.ty = "Empty" THEN << >>
    ELSE IF val.ty = "List" THEN val.l
    ELSE <<val>>

\* list_tick, the loop over the bound slots from the i-th on
RECURSIVE ListFrom(_, _, _)
ListFrom(i, pos, st) ==
    IF i > Len(SlotNames) THEN [panic |-> FALSE, l |-> << >>]
    ELSE LET p == PortByName(SlotNames[i], pos) IN
         IF p.k = "panic" THEN [panic |-> TRUE, l |-> << >>]
         ELSE LET rest == ListFrom(i + 1, pos, st)
                  here == IF p.k = "none" THEN << >>
                          ELSE IF p.c \notin DOMAIN st THEN << >>
                          ELSE IF ~IsDoneOk(st[p.c]) THEN << >>
                          ELSE Flattened(st[p.c].v)
              IN  [panic |-> rest.panic, l |-> here \o rest.l]

\* list_tick, one event
ListOne(ev, st) ==
    IF ~ev.live THEN Outcome(st, FALSE, "continue")
    ELSE LET r == ListFrom(1, ev.c, st) IN
         IF r.panic THEN Outcome(st, FALSE, "panic")
         ELSE Outcome([st EXCEPT ![ev.c] = DoneOk(ListV(r.l))], FALSE, "continue")

\* match fetch_port_data("threshold", ..) { Ok(Val::Number(t)) => t, _ => 0. }
Threshold(r) == IF r.k = "ok" /\ r.v.ty = "Number" THEN r.v.n ELSE 0

\* a charge that fires only past the threshold
FiresPast(count, threshold) == count > threshold

\* if count as f32 >= threshold
Fires(count, threshold) == count >= threshold

\* plasma_tick, one event; cn holds the PlasmaCounter components.  The shot it
\* spawns is its side effect.  (A first counter is inserted by a command; no
\* system reads it before the schedule ends.)
PlasmaOne(ev, st, cn) ==
    IF ~ev.live THEN Outcome(st, FALSE, "continue")
    ELSE LET tg == FetchPortData("target", ev.c, st) IN
         IF tg.k = "panic" THEN Outcome(st, FALSE, "panic")
         ELSE IF ~(tg.k = "ok" /\ tg.v.ty = "Vec") THEN Outcome(st, FALSE, "continue")
         ELSE LET th == FetchPortData("threshold", ev.c, st) IN
              IF th.k = "panic" THEN Outcome(st, FALSE, "panic")
              ELSE LET count == (IF ev.c \in DOMAIN cn THEN cn[ev.c] ELSE 0) + 1
                       fire == Fires(count, Threshold(th))
                       res == IF fire THEN count ELSE 0
                   IN  [Outcome([st EXCEPT ![ev.c] = DoneOk(NumV(res))], fire, "continue")
                           EXCEPT !.cnt = IF fire THEN 0 ELSE count]

\* Hex::round of a vector; the vectors of the model have whole components,
\* which rounding keeps
Round(v) == <<v.x, v.y>>

\* a tile test that also takes Terrain for free
FreeOrTerrain(t) == t \in {"Unoccupied", "Terrain"}

\* *tt == TileType::Unoccupied
Free(t) == t = "Unoccupied"

\* project_tick, one event; tl holds the TileType of the cells as the loop has
\* left them.  The terrain it raises is its side effect.
ProjectOne(ev, st, tl) ==
    IF ~ev.live THEN Outcome(st, FALSE, "continue")
    ELSE LET tg == FetchPortData("target", ev.c, st) IN
         IF tg.k = "panic" THEN Outcome(st, FALSE, "panic")
         ELSE IF ~(tg.k = "ok" /\ tg.v.ty = "Vec") THEN Outcome(st, FALSE, "continue")
         ELSE LET pos == Round(tg.v) IN
              IF ~InBounds(pos)
                 THEN Outcome([st EXCEPT ![ev.c] = DoneErr], FALSE, "continue")
              ELSE IF ~Free(tl[pos])
                 THEN Outcome([st EXCEPT ![ev.c] = DoneErr], FALSE, "continue")
              ELSE [Outcome([st EXCEPT ![ev.c] = DoneOk(EmptyV)], TRUE, "continue")
                       EXCEPT !.tile = pos]

\* what the evaluators change besides the node states
World(tl, cn, hs) == [tiles |-> tl, counters |-> cn, hits |-> hs]

\* a hit that is counted twice
AddHitTwice(hs, hit) ==
    [e \in DOMAIN hs \cup DOMAIN hit |->
        (IF e \in DOMAIN hs THEN hs[e] ELSE 0) + 2 * (IF e \in DOMAIN hit THEN hit[e] ELSE 0)]

\* the Health an entity has lost after one more hit
AddHit(hs, hit) ==
    [e \in DOMAIN hs \cup DOMAIN hit |->
        (IF e \in DOMAIN hs THEN hs[e] ELSE 0) + (IF e \in DOMAIN hit THEN hit[e] ELSE 0)]

\* the world after one turn of an evaluator's loop, for the node at c
After(w, c, r) ==
    World(IF r.tile # NoCell THEN [w.tiles EXCEPT ![r.tile] = "Terrain"] ELSE w.tiles,
          IF r.cnt >= 0 THEN With(w.counters, c, r.cnt) ELSE w.counters,
          AddHit(w.hits, r.hit))

EvalOne(kind, ev, st, found, w) ==
    CASE kind = "Lazor" -> LazorOne(ev, st)
      [] kind = "ClosestEntity" -> ClosestOne(ev, st, found[ev.c])
      [] kind = "EntityPos" -> EntityPosOne(ev, st)
      [] kind = "EntityDirection" -> EntityDirOne(ev, st)
      [] kind = "VectorNeg" -> VecNegOne(ev, st)
      [] kind = "Orbital" -> OrbitalOne(ev, st)
      [] kind = "NumberSub" -> NumSubOne(ev, st)
      [] kind = "NumberMul" -> NumMulOne(ev, st)
      [] kind = "VectorMul" -> VecMulOne(ev, st)
      [] kind = "List" -> ListOne(ev, st)
      [] kind = "Debug" -> DebugOne(ev, st)
      [] kind = "Plasma" -> PlasmaOne(ev, st, w.counters)
      [] kind = "Project" -> ProjectOne(ev, st, w.tiles)

\* for e in evt.read() { .. }: a return leaves the later events unread
RECURSIVE EvalLoop(_, _, _, _, _, _)
EvalLoop(kind, q, st, fx, found, w) ==
    IF q = << >> THEN [st |-> st, q |-> q, fx |-> fx, panic |-> FALSE, w |-> w]
    ELSE LET r == EvalOne(kind, Head(q), st, found, w)
             fx2 == IF r.fx THEN fx \cup {Head(q).c} ELSE fx
             w2 == After(w, Head(q).c, r)
         IN  IF r.ctl = "panic"
                THEN [st |-> r.st, q |-> Tail(q), fx |-> fx2, panic |-> TRUE, w |-> w2]
             ELSE IF r.ctl = "return"
                THEN [st |-> r.st, q |-> Tail(q), fx |-> fx2, panic |-> FALSE, w |-> w2]
             ELSE EvalLoop(kind, Tail(q), r.st, fx2, found, w2)

Evaluator(sys, kind, found) ==
    /\ Ran(sys)
    /\ \E r \in {EvalLoop(kind, evts[kind], cstate, {}, found, World(tiles, counters, NoHits))} :
          /\ cstate' = r.st
          /\ evts' = [evts EXCEPT ![kind] = r.q]
          /\ lastFx' = r.fx
          /\ panicked' = r.panic
          /\ lastN' = Len(evts[kind]) - Len(r.q)
          /\ doneNow' = doneNow \cup {c \in DOMAIN cstate : r.st[c] # cstate[c] /\ r.st[c].t = "Done"}
          /\ tiles' = r.w.tiles
          /\ dirty' = (dirty \/ r.w.tiles # tiles)
          /\ counters' = r.w.counters
          /\ hits' = r.w.hits
          /\ raised' = [c \in {h \in Board : r.w.tiles[h] # tiles[h]} |-> tiles[c]]
          /\ health' = IF r.w.tiles = tiles THEN health
                        ELSE [e \in DOMAIN health
                                     \cup {OccupantOf(r.w.tiles, c) :
                                              c \in {h \in Board : r.w.tiles[h] # tiles[h]}} |->
                                IF e \in DOMAIN health THEN health[e] ELSE StartHealth]
          /\ charges' = IF kind = "Plasma" THEN charges + (Len(evts[kind]) - Len(r.q)) ELSE charges
          /\ pulse' = Served(pulse, evts[kind], Len(evts[kind]) - Len(r.q))
    /\ UNCHANGED <<hearts, meta, cfg, enemies, tickEvts, tileEvts,
                   queued, edits, fired, firedPrev, stable, activity, rip, appstate, beat>>

NoneFound == [c \in ClickCells |-> 0]

LazorTick == Evaluator("lazor_tick", "Lazor", NoneFound)

ClosestTick == \E found \in [ClickCells -> enemies \cup {0}] :
                   Evaluator("closest_tick", "ClosestEntity", found)

\* The end of the FixedUpdate schedule: the queued commands send their TickNode
\* events.  An event a reader left unread (it returned from its loop) is two
\* event updates old before that reader runs again, and is dropped.
RECURSIVE SendAll(_, _)
SendAll(q, ev) ==
    IF q = << >> THEN ev
    ELSE SendAll(Tail(q),
                 IF Head(q).kind \in DOMAIN ev
                    THEN [ev EXCEPT ![Head(q).kind] = Append(@, [c |-> Head(q).c, live |-> TRUE])]
                    ELSE ev)

\* the entities the despawn commands of the pass name
Despawned(q) == {<<q[i].of, q[i].c>> : i \in {j \in DOMAIN q : q[j].kind = "despawn"}}

ApplyDeferred ==
    /\ phase = "FixedUpdate" /\ ~panicked /\ todo = {}
    /\ LET gone == Despawned(queued)
           nodes == CellsOf("CyberNode", gone)
       IN  /\ evts' = KillAll(SendAll(queued, [k \in Kinds |-> << >>]), nodes)
           /\ health' = Drop(health, gone)
           /\ hearts' = hearts \ CellsOf("Heart", gone)
           /\ beat' = Drop(beat, CellsOf("Heart", gone))
           /\ meta' = Drop(meta, nodes)
           /\ cfg' = Drop(cfg, nodes)
           /\ cstate' = Drop(cstate, nodes)
           /\ counters' = Drop(counters, nodes)
           /\ pulse' = Drop(pulse, nodes)
    /\ queued' = << >>
    /\ phase' = "Update"
    /\ todo' = UpdateSystems
    /\ lastSys' = "apply_deferred"
    /\ pre' = cstate
    /\ lastBind' = NoBind
    /\ lastFx' = {}
    /\ hits' = NoHits
    /\ raised' = << >>
    /\ lastN' = 0
    /\ UNCHANGED <<tiles, charges, activity, rip, appstate, enemies, tickEvts, dirty, tileEvts,
                   panicked, edits, fired, firedPrev, doneNow, frameEdit, stable>>

-----------------------------------------------------------------------------
(* Update: detect_changes, disable_disconnected *)

RanUpdate(sys) ==
    /\ phase = "Update" /\ ~panicked
    /\ sys \in todo
    /\ todo' = IF todo = {sys} THEN PreSystems ELSE todo \ {sys}
    /\ phase' = IF todo = {sys} THEN "PreUpdate" ELSE "Update"
    /\ lastSys' = sys
    /\ pre' = cstate
    /\ lastFx' = {}
    /\ hits' = NoHits
    /\ raised' = << >>
    /\ frameEdit' = frameEdit
    /\ lastBind' = NoBind

DetectChanges ==
    /\ RanUpdate("detect_changes")
    /\ tileEvts' = IF dirty THEN tileEvts + 1 ELSE tileEvts
    /\ dirty' = FALSE
    /\ lastN' = 0
    /\ UNCHANGED <<tiles, hearts, counters, charges, pulse, health, activity, rip, appstate, beat, meta, cfg, cstate, enemies, tickEvts,
                   queued, evts, panicked, edits, fired, firedPrev, doneNow, stable>>

\* the inner loop of the traversal: for neighbor in tile.all_neighbors()
RECURSIVE VisitNeighbors(_, _, _, _, _)
VisitNeighbors(i, tile, visited, toVisit, st) ==
    IF i > 6 THEN [toVisit |-> toVisit, st |-> st]
    ELSE LET n == Add(tile, NeighborSeq[i]) IN
         IF ~InBounds(n) THEN VisitNeighbors(i + 1, tile, visited, toVisit, st)
         ELSE IF tiles[n] # "CyberNode" THEN VisitNeighbors(i + 1, tile, visited, toVisit, st)
         ELSE IF n \in visited THEN VisitNeighbors(i + 1, tile, visited, toVisit, st)
         ELSE VisitNeighbors(i + 1, tile, visited, Append(toVisit, n),
                             IF n \in DOMAIN st THEN [st EXCEPT ![n] = Idle] ELSE st)

\* a traversal that stops at the neighbours of the tile it starts from
TraverseOne(toVisit, visited, st) ==
    IF toVisit = << >> THEN st
    ELSE LET tile == toVisit[Len(toVisit)]
             rest == SubSeq(toVisit, 1, Len(toVisit) - 1)
         IN  VisitNeighbors(1, tile, visited \cup {tile}, rest, st).st

\* while let Some(tile) = to_visit.pop()
RECURSIVE Traverse(_, _, _)
Traverse(toVisit, visited, st) ==
    IF toVisit = << >> THEN st
    ELSE LET tile == toVisit[Len(toVisit)]
             rest == SubSeq(toVisit, 1, Len(toVisit) - 1)
             seen == visited \cup {tile}
             r == VisitNeighbors(1, tile, seen, rest, st)
         IN  Traverse(r.toVisit, seen, r.st)

\* for hpos in hearts.iter()
RECURSIVE FromHearts(_, _)
FromHearts(hs, st) ==
    IF hs = {} THEN st
    ELSE LET h == CHOOSE x \in hs : TRUE IN
         FromHearts(hs \ {h}, Traverse(<<h>>, {}, st))

\* the body of disable_disconnected for one TileChanged event
PruneOnce(st) == FromHearts(hearts, [c \in DOMAIN st |-> Disabled])

RECURSIVE PruneAll(_, _)
PruneAll(n, st) == IF n = 0 THEN st ELSE PruneAll(n - 1, PruneOnce(st))

DisableDisconnected ==
    /\ RanUpdate("disable_disconnected")
    /\ cstate' = PruneAll(tileEvts, cstate)
    /\ tileEvts' = 0
    /\ lastN' = tileEvts
    /\ stable' = IF tileEvts > 0 THEN FALSE ELSE stable
    /\ UNCHANGED <<tiles, hearts, counters, charges, pulse, health, activity, rip, appstate, beat, meta, cfg, enemies, tickEvts, dirty,
                   queued, evts, panicked, edits, fired, firedPrev, doneNow>>

\* open_death: a Rip event queues the transition to Appstate::Death
OpenDeath ==
    /\ RanUpdate("open_death")
    /\ appstate' = IF rip > 0 THEN [appstate EXCEPT !.next = "Death"] ELSE appstate
    /\ rip' = 0
    /\ lastN' = rip
    /\ UNCHANGED <<tiles, hearts, counters, charges, pulse, health, activity, beat, meta, cfg, cstate,
                   enemies, tickEvts, dirty, tileEvts, queued, evts, panicked, edits, fired,
                   firedPrev, doneNow, stable>>

-----------------------------------------------------------------------------
(* Health: destroy_nodes in PreUpdate; attack and despawn of the enemy plugin
   in FixedUpdate; the transition to Appstate::Death *)

\* destroy_nodes: the tile of every occupant with Health <= 0 becomes
\* Unoccupied and the occupant is despawned; a heart sends Rip.  A tile whose
\* entity has no Health (it was despawned) is passed over.
DestroyNodes ==
    /\ phase = "PreUpdate" /\ ~panicked
    /\ "destroy_nodes" \in todo
    /\ todo' = todo \ {"destroy_nodes"}
    /\ LET nodes == {c \in Dead : tiles[c] = "CyberNode"}
           gone == {c \in Dead : tiles[c] = "Heart"}
       IN  /\ tiles' = [c \in Board |-> IF c \in Dead THEN "Unoccupied" ELSE tiles[c]]
           /\ rip' = rip + Cardinality(gone)
           /\ health' = Drop(health, {Occupant(c) : c \in Dead})
           /\ hearts' = hearts \ gone
           /\ beat' = Drop(beat, gone)
           /\ meta' = Drop(meta, nodes)
           /\ cfg' = Drop(cfg, nodes)
           /\ cstate' = Drop(cstate, nodes)
           /\ counters' = Drop(counters, nodes)
           /\ pulse' = Drop(pulse, nodes)
           /\ evts' = KillAll(evts, nodes)
    /\ dirty' = (dirty \/ Dead # {})
    /\ lastSys' = "destroy_nodes"
    /\ pre' = cstate
    /\ lastFx' = {}
    /\ hits' = NoHits
    /\ raised' = [c \in Dead |-> tiles[c]]
    /\ lastN' = 0
    /\ lastBind' = NoBind
    /\ UNCHANGED <<charges, activity, appstate, enemies, tickEvts, tileEvts, queued, phase,
                   panicked, edits, fired, firedPrev, doneNow, frameEdit, stable>>

\* Dmg of an enemy: f32::max(hp.0 / 10., 1.), any value from 1 up; the values followed
Dmgs == {10}

\* the Health an entity is left with when the enemies in hit strike
Struck(e, hit, dmg) ==
    LET RECURSIVE Sum(_)
        Sum(S) == IF S = {} THEN 0
                  ELSE LET x == CHOOSE y \in S : TRUE IN dmg[x] + Sum(S \ {x})
    IN  health[e] - Sum({x \in hit : activity[x] = e})

\* attack: every attacking enemy whose timer just finished takes its Dmg from the
\* Health of the entity it attacks, if that entity still exists
Attack ==
    /\ Ran("attack")
    /\ \E hit \in SUBSET (DOMAIN activity) :
          \E dmg \in [hit -> Dmgs] :
              health' = [e \in DOMAIN health |-> Struck(e, hit, dmg)]
    /\ lastFx' = {}
    /\ hits' = NoHits
    /\ raised' = << >>
    /\ lastN' = 0
    /\ UNCHANGED <<tiles, hearts, counters, charges, pulse, activity, rip, appstate, beat, meta, cfg,
                   cstate, enemies, tickEvts, dirty, tileEvts, queued, evts, panicked, edits,
                   fired, firedPrev, doneNow, stable>>

\* despawn (enemy.rs): a despawn command for every entity with Health <= 0,
\* hearts, nodes and terrain included; the tiles are left as they are
RECURSIVE DespawnAll(_, _)
DespawnAll(es, q) ==
    IF es = {} THEN q
    ELSE LET e == CHOOSE x \in es : TRUE IN
         DespawnAll(es \ {e}, Append(q, [c |-> e[2], kind |-> "despawn", of |-> e[1]]))

Despawn ==
    /\ Ran("despawn")
    /\ queued' = DespawnAll({e \in DOMAIN health : health[e] <= 0}, queued)
    /\ lastFx' = {}
    /\ hits' = NoHits
    /\ raised' = << >>
    /\ lastN' = 0
    /\ UNCHANGED <<tiles, hearts, counters, charges, pulse, health, activity, rip, appstate, beat, meta,
                   cfg, cstate, enemies, tickEvts, dirty, tileEvts, evts, panicked, edits,
                   fired, firedPrev, doneNow, stable>>

\* the tile entities are despawned with everything else
NoBoard == [h \in Board |-> "Despawned"]

\* StateTransition: the queued state is entered.  Gamestate, a sub state of
\* Appstate::Game, ends with it, so no system of the game runs any more;
\* OnExit(Appstate::Game) runs deinit, which despawns the tiles, their
\* occupants and the enemies.
StateTransition ==
    /\ phase = "StateTransition" /\ ~panicked
    /\ appstate' = [cur |-> appstate.next, next |-> "None"]
    /\ phase' = appstate.next
    /\ tiles' = NoBoard
    /\ hearts' = {}
    /\ meta' = << >>
    /\ cfg' = << >>
    /\ cstate' = << >>
    /\ counters' = << >>
    /\ health' = << >>
    /\ beat' = << >>
    /\ pulse' = << >>
    /\ enemies' = {}
    /\ activity' = << >>
    /\ evts' = KillAll(evts, DOMAIN cstate)
    /\ lastSys' = "deinit"
    /\ pre' = cstate
    /\ lastFx' = {}
    /\ hits' = NoHits
    /\ raised' = << >>
    /\ lastN' = 0
    /\ lastBind' = NoBind
    /\ UNCHANGED <<charges, rip, tickEvts, dirty, tileEvts, queued, todo, panicked, edits,
                   fired, firedPrev, doneNow, frameEdit, stable>>

-----------------------------------------------------------------------------
(* The game *)

\* init: the heart at Hex::ZERO, every other tile Unoccupied
Init ==
    /\ tiles = [h \in Board |-> IF h = ZERO THEN "Heart" ELSE "Unoccupied"]
    /\ hearts = {ZERO}
    /\ meta = << >>
    /\ cfg = << >>
    /\ cstate = << >>
    /\ enemies = {}
    /\ tickEvts = 0
    /\ dirty = TRUE
    /\ tileEvts = 0
    /\ queued = << >>
    /\ evts = [k \in Kinds |-> << >>]
    /\ phase = "PreUpdate"
    /\ todo = {}
    /\ panicked = FALSE
    /\ edits = 0
    /\ lastSys = "init"
    /\ pre = << >>
    /\ raised = << >>
    /\ lastFx = {}
    /\ lastN = 0
    /\ fired = {}
    /\ firedPrev = {}
    /\ doneNow = {}
    /\ frameEdit = "none"
    /\ stable = FALSE
    /\ lastBind = NoBind
    /\ counters = << >>
    /\ hits = NoHits
    /\ charges = 0
    /\ pulse = << >>
    /\ health = FullHealth(tiles)
    /\ activity = << >>
    /\ rip = 0
    /\ appstate = InGame
    /\ beat = [h \in hearts |-> FirstBeat]

\* the directions the player wires in this model: towards the clicked cells,
\* and one that leaves the board from <<2, 0>>
BindDirs == {<<-1, 0>>, <<1, 0>>}

Next ==
    \/ \E c \in ClickCells, k \in Kinds : TilePurchased(c, k)
    \/ \E c \in ClickCells : tiles[c] = "CyberNode" /\ RemoveNode(c)
    \/ \E c \in ClickCells, port \in {"target"}, h \in BindDirs : GridPick(c, port, h)
    \/ \E e \in EnemyIds : EnemyStep(e)
    \/ NoEdit
    \/ Heartbeat
    \/ RequestNodes
    \/ TickNodes
    \/ LazorTick
    \/ ClosestTick
    \/ ApplyDeferred
    \/ DetectChanges
    \/ DisableDisconnected

Spec == Init /\ [][Next]_vars

-----------------------------------------------------------------------------
(* The configuration UI (Gamestate::Configurate): the systems of the game are
   not run; grid_pick binds the ports of the node being configured. *)

\* the node the player configures: a plasma cannon, the kind with two input ports
CfgCell == <<1, 0>>

\* grid_pick, run on its own
ConfigPick(port, h) ==
    /\ phase = "Configurate"
    /\ cfg' = [cfg EXCEPT ![CfgCell] = BindPort(cfg[CfgCell], h, port)]
    /\ lastBind' = [c |-> CfgCell, port |-> port, h |-> h, old |-> cfg[CfgCell]]
    /\ lastSys' = "grid_pick"
    /\ UNCHANGED <<tiles, hearts, counters, charges, pulse, health, activity, rip, appstate, beat, meta, cstate, enemies, tickEvts, dirty, tileEvts, queued,
                   evts, phase, todo, panicked, edits, pre, raised, lastFx, hits,
                   lastN, fired, firedPrev,
                   doneNow, frameEdit, stable>>

InitBind ==
    /\ tiles = [h \in Board |-> IF h = ZERO THEN "Heart"
                                ELSE IF h = CfgCell THEN "CyberNode" ELSE "Unoccupied"]
    /\ hearts = {ZERO}
    /\ meta = (CfgCell :> "Plasma")
    /\ cfg = (CfgCell :> << >>)
    /\ cstate = (CfgCell :> Idle)
    /\ enemies = {}
    /\ tickEvts = 0
    /\ dirty = FALSE
    /\ tileEvts = 0
    /\ queued = << >>
    /\ evts = [k \in Kinds |-> << >>]
    /\ phase = "Configurate"
    /\ todo = {}
    /\ panicked = FALSE
    /\ edits = 0
    /\ lastSys = "init"
    /\ pre = (CfgCell :> Idle)
    /\ raised = << >>
    /\ lastFx = {}
    /\ lastN = 0
    /\ fired = {}
    /\ firedPrev = {}
    /\ doneNow = {}
    /\ frameEdit = "none"
    /\ stable = FALSE
    /\ lastBind = NoBind
    /\ counters = << >>
    /\ hits = NoHits
    /\ charges = 0
    /\ pulse = << >>
    /\ health = FullHealth(tiles)
    /\ activity = << >>
    /\ rip = 0
    /\ appstate = InGame
    /\ beat = [h \in hearts |-> FirstBeat]

NextBind == \E port \in Ports("Plasma"), h \in Dirs : ConfigPick(port, h)

SpecBind == InitBind /\ [][NextBind]_vars

-----------------------------------------------------------------------------
(* One evaluator run: a dispatched node at EvalCell whose TickNode event is
   unread, its input port unbound or bound to the node at SrcCell, which holds
   any state. *)

EvalKinds == {"Lazor", "EntityPos", "EntityDirection", "VectorNeg", "Orbital"}

\* the required input port of each of these kinds, and the variant it expects
PortOf(k) == IF k = "VectorNeg" THEN "vector" ELSE "target"

Expects(k) == IF k \in {"VectorNeg", "Orbital"} THEN "Vec" ELSE "Entity"

EvalCell == <<1, 0>>

SrcCell == <<2, 0>>

SrcStates == {Idle, ActivationRequest, DoneErr, DoneOk(EmptyV), DoneOk(NumV(1)),
              DoneOk(VecV)} \cup {DoneOk(EntV(e)) : e \in EnemyIds}

EntityPosTick == Evaluator("entity_pos_tick", "EntityPos", NoneFound)

EntityDirTick == Evaluator("entity_dir_tick", "EntityDirection", NoneFound)

VecNegTick == Evaluator("vecneg_tick", "VectorNeg", NoneFound)

OrbitalTick == Evaluator("orbital_tick", "Orbital", NoneFound)

InitEval ==
    /\ tiles = [h \in Board |-> IF h = ZERO THEN "Heart"
                                ELSE IF h \in {EvalCell, SrcCell} THEN "CyberNode"
                                ELSE "Unoccupied"]
    /\ hearts = {ZERO}
    /\ \E k \in EvalKinds :
          /\ meta = (EvalCell :> k @@ SrcCell :> "ClosestEntity")
          /\ \E inputs \in {<< >>, (<<1, 0>> :> PortOf(k))} :
                cfg = (EvalCell :> inputs @@ SrcCell :> << >>)
          /\ evts = [x \in EvalKinds |->
                       IF x = k THEN <<[c |-> EvalCell, live |-> TRUE]>> ELSE << >>]
          /\ todo = {TickSystem(k)}
    /\ \E s \in SrcStates : cstate = (EvalCell :> Triggered @@ SrcCell :> s)
    /\ enemies \in SUBSET EnemyIds
    /\ tickEvts = 0
    /\ dirty = FALSE
    /\ tileEvts = 0
    /\ queued = << >>
    /\ phase = "FixedUpdate"
    /\ panicked = FALSE
    /\ edits = 0
    /\ lastSys = "init"
    /\ pre = cstate
    /\ raised = << >>
    /\ lastFx = {}
    /\ lastN = 0
    /\ fired = {}
    /\ firedPrev = {EvalCell}
    /\ doneNow = {}
    /\ frameEdit = "none"
    /\ stable = FALSE
    /\ lastBind = NoBind
    /\ counters = << >>
    /\ hits = NoHits
    /\ charges = 0
    /\ pulse = << >>
    /\ health = FullHealth(tiles)
    /\ activity = << >>
    /\ rip = 0
    /\ appstate = InGame
    /\ beat = [h \in hearts |-> FirstBeat]

NextEval ==
    \/ LazorTick
    \/ EntityPosTick
    \/ EntityDirTick
    \/ VecNegTick
    \/ OrbitalTick

SpecEval == InitEval /\ [][NextEval]_vars

-----------------------------------------------------------------------------
(* One run of a variable-arity reducer: a dispatched node at FoldCell whose
   TickNode event is unread, any of its slots a..e bound towards three
   neighbour nodes, which hold any state; one of them may have been removed
   since the dispatch. *)

FoldKinds == {"NumberSub", "NumberMul", "VectorMul", "List", "Debug"}

FoldCell == <<1, 0>>

\* the directions of the three neighbours
FoldDirs == {<<1, 0>>, <<1, -1>>, <<0, 1>>}

FoldSrcs == {Add(FoldCell, d) : d \in FoldDirs}

\* the neighbour that may be gone
GoneCell == <<2, 0>>

\* PortCfg.inputs of the reducer: a direction holds one port, a port sits on
\* one direction
Wirings ==
    UNION {{f \in [D -> {SlotNames[i] : i \in 1..Len(SlotNames)}] :
               \A d1, d2 \in D : d1 # d2 => f[d1] # f[d2]} : D \in SUBSET FoldDirs}

\* the states the neighbours of a reducer of kind k hold
FoldStates(k) ==
    CASE k \in {"NumberSub", "NumberMul"} ->
            {DoneErr, DoneOk(NumV(10)), DoneOk(NumV(3)), DoneOk(NumV(2)), DoneOk(Vec2V(1, 2))}
      [] k = "VectorMul" ->
            {DoneErr, DoneOk(Vec2V(2, 3)), DoneOk(Vec2V(-1, 2)), DoneOk(NumV(2))}
      [] k = "List" ->
            {DoneErr, DoneOk(NumV(1)), DoneOk(EmptyV),
             DoneOk(ListV(<<NumV(2), NumV(3)>>)),
             DoneOk(ListV(<<ListV(<<NumV(4)>>)>>))}
      [] k = "Debug" -> {ActivationRequest, DoneOk(NumV(1))}

NumSubTick == Evaluator("numsub_tick", "NumberSub", NoneFound)

NumMulTick == Evaluator("nummul_tick", "NumberMul", NoneFound)

VecMulTick == Evaluator("vecmul_tick", "VectorMul", NoneFound)

ListTick == Evaluator("list_tick", "List", NoneFound)

DebugTick == Evaluator("debug_tick", "Debug", NoneFound)

InitFold ==
    /\ hearts = {ZERO}
    /\ \E k \in FoldKinds, inputs \in Wirings, gone \in SUBSET {GoneCell} :
          LET srcs == FoldSrcs \ gone IN
          /\ tiles = [h \in Board |-> IF h = ZERO THEN "Heart"
                                      ELSE IF h \in {FoldCell} \cup srcs THEN "CyberNode"
                                      ELSE "Unoccupied"]
          /\ meta = [c \in {FoldCell} \cup srcs |-> IF c = FoldCell THEN k ELSE "Storage"]
          /\ cfg = [c \in {FoldCell} \cup srcs |-> IF c = FoldCell THEN inputs ELSE << >>]
          /\ \E held \in [srcs -> FoldStates(k)] :
                cstate = [c \in {FoldCell} \cup srcs |->
                            IF c = FoldCell THEN Triggered ELSE held[c]]
          /\ evts = [x \in FoldKinds |->
                       IF x = k THEN <<[c |-> FoldCell, live |-> TRUE]>> ELSE << >>]
          /\ todo = {TickSystem(k)}
    /\ enemies = {}
    /\ tickEvts = 0
    /\ dirty = FALSE
    /\ tileEvts = 0
    /\ queued = << >>
    /\ phase = "FixedUpdate"
    /\ panicked = FALSE
    /\ edits = 0
    /\ lastSys = "init"
    /\ pre = cstate
    /\ raised = << >>
    /\ lastFx = {}
    /\ lastN = 0
    /\ fired = {}
    /\ firedPrev = {FoldCell}
    /\ doneNow = {}
    /\ frameEdit = "none"
    /\ stable = FALSE
    /\ lastBind = NoBind
    /\ counters = << >>
    /\ hits = NoHits
    /\ charges = 0
    /\ pulse = << >>
    /\ health = FullHealth(tiles)
    /\ activity = << >>
    /\ rip = 0
    /\ appstate = InGame
    /\ beat = [h \in hearts |-> FirstBeat]

NextFold ==
    \/ NumSubTick
    \/ NumMulTick
    \/ VecMulTick
    \/ ListTick
    \/ DebugTick

SpecFold == InitFold /\ [][NextFold]_vars

-----------------------------------------------------------------------------
(* The effect nodes, round after round: the nodes of one kind are dispatched,
   their TickNode events unread, their inputs held by neighbour nodes; after
   the evaluator has run, the next heartbeat round dispatches them again with
   the same inputs. *)

ShotKinds == {"Plasma", "Lazor", "Project", "ClosestEntity"}

\* thresholds wired to the plasma cannon
MaxThreshold == 3
\* plasma evaluations in one run
MaxCharges == 7

\* the effect node, the neighbour on its target port, the neighbour on its
\* threshold port
ShotCell == <<1, 0>>

TgtCell == <<2, 0>>

ThrCell == <<1, 1>>

\* a second project-tile node and the neighbour on its target port
ShotCell2 == <<-1, 0>>

TgtCell2 == <<-2, 0>>

\* a cell that holds Terrain from the start
TerrainCell == <<0, -1>>

\* the cells the project-tile nodes are aimed at: free, the heart, a node,
\* terrain, off the board
AimCells == {<<0, 1>>, ZERO, ShotCell, TerrainCell, <<5, 0>>}

\* the targetable entities of these runs, and the hex each one stands on
\* (world_pos_to_hex of its Transform)
TargetIds == {1, 2, 3}

Spot(e) == CASE e = 1 -> <<4, 0>>
             [] e = 2 -> <<1, 2>>
             [] e = 3 -> <<10, 0>>

\* pos.distance_to(hpos.0)
Distance(a, b) == Length(<<a[1] - b[1], a[2] - b[2]>>)

\* (pos.distance_to(hpos.0) <= 8)
Range == 8

InRange(c) == {e \in enemies : Distance(Spot(e), c) <= Range}

\* closest_tick over entities whose position is known: find_map yields the
\* first entity in range, in the order the query iterates
ClosestInRangeTick ==
    \E found \in [DOMAIN cstate -> TargetIds \cup {0}] :
        /\ \A c \in DOMAIN cstate :
              found[c] \in (IF InRange(c) = {} THEN {0} ELSE InRange(c))
        /\ Evaluator("closest_tick", "ClosestEntity", found)

PlasmaTick == Evaluator("plasma_tick", "Plasma", NoneFound)

ProjectTick == Evaluator("project_tick", "Project", NoneFound)

TilesOf(nodes, terrain) ==
    [h \in Board |-> IF h = ZERO THEN "Heart"
                     ELSE IF h \in nodes THEN "CyberNode"
                     ELSE IF h \in terrain THEN "Terrain"
                     ELSE "Unoccupied"]

\* the TickNode events of the nodes tick_nodes dispatched, in its order
Sent(k, order) ==
    [x \in ShotKinds |->
        IF x = k THEN [i \in DOMAIN order |-> [c |-> order[i], live |-> TRUE]] ELSE << >>]

\* the state after a scheduler pass has dispatched the nodes in order
ShotStart(k, ms, cs, ss, order, tl, en) ==
    /\ tiles = tl
    /\ hearts = {ZERO}
    /\ meta = ms
    /\ cfg = cs
    /\ cstate = ss
    /\ enemies = en
    /\ evts = Sent(k, order)
    /\ todo = {TickSystem(k)}
    /\ tickEvts = 0
    /\ dirty = FALSE
    /\ tileEvts = 0
    /\ queued = << >>
    /\ phase = "FixedUpdate"
    /\ panicked = FALSE
    /\ edits = 0
    /\ lastSys = "init"
    /\ pre = cstate
    /\ raised = << >>
    /\ lastFx = {}
    /\ lastN = 0
    /\ fired = {order[i] : i \in DOMAIN order}
    /\ firedPrev = {}
    /\ doneNow = {}
    /\ frameEdit = "none"
    /\ stable = FALSE
    /\ lastBind = NoBind
    /\ counters = << >>
    /\ hits = NoHits
    /\ charges = 0
    /\ pulse = << >>
    /\ health = FullHealth(tiles)
    /\ activity = << >>
    /\ rip = 0
    /\ appstate = InGame
    /\ beat = [h \in hearts |-> FirstBeat]

\* a plasma cannon: the target port bound, the threshold port unbound or bound
InitPlasma ==
    \E tg \in {DoneOk(Vec2V(2, -1)), DoneOk(NumV(1))},
       inputs \in {(<<1, 0>> :> "target"), (<<1, 0>> :> "target" @@ <<0, 1>> :> "threshold")},
       th \in {DoneOk(NumV(t)) : t \in 1..MaxThreshold} \cup {DoneOk(Vec2V(2, -1))} :
        ShotStart("Plasma",
                  (ShotCell :> "Plasma" @@ TgtCell :> "Storage" @@ ThrCell :> "Storage"),
                  (ShotCell :> inputs @@ TgtCell :> << >> @@ ThrCell :> << >>),
                  (ShotCell :> Triggered @@ TgtCell :> tg @@ ThrCell :> th),
                  <<ShotCell>>, TilesOf({ShotCell, TgtCell, ThrCell}, {}), {})

\* a lazor: the target port unbound or bound, any targetable entities about
InitLazor ==
    \E tg \in {DoneOk(EntV(e)) : e \in TargetIds} \cup {DoneErr, DoneOk(NumV(1))},
       inputs \in {<< >>, (<<1, 0>> :> "target")},
       en \in SUBSET TargetIds :
        ShotStart("Lazor",
                  (ShotCell :> "Lazor" @@ TgtCell :> "ClosestEntity"),
                  (ShotCell :> inputs @@ TgtCell :> << >>),
                  (ShotCell :> Triggered @@ TgtCell :> tg),
                  <<ShotCell>>, TilesOf({ShotCell, TgtCell}, {}), en)

\* two project-tile nodes, each aimed at one of the cells, dispatched in
\* either order
InitProject ==
    \E a1, a2 \in AimCells, order \in Orders({ShotCell, ShotCell2}) :
        ShotStart("Project",
                  (ShotCell :> "Project" @@ TgtCell :> "Storage"
                     @@ ShotCell2 :> "Project" @@ TgtCell2 :> "Storage"),
                  (ShotCell :> (<<1, 0>> :> "target") @@ TgtCell :> << >>
                     @@ ShotCell2 :> (<<-1, 0>> :> "target") @@ TgtCell2 :> << >>),
                  (ShotCell :> Triggered @@ TgtCell :> DoneOk(Vec2V(a1[1], a1[2]))
                     @@ ShotCell2 :> Triggered @@ TgtCell2 :> DoneOk(Vec2V(a2[1], a2[2]))),
                  order, TilesOf({ShotCell, TgtCell, ShotCell2, TgtCell2}, {TerrainCell}), {})

\* a closest-entity node, any targetable entities about
InitClosest ==
    \E en \in SUBSET TargetIds :
        ShotStart("ClosestEntity", (ShotCell :> "ClosestEntity"), (ShotCell :> << >>),
                  (ShotCell :> Triggered), <<ShotCell>>, TilesOf({ShotCell}, {}), en)

InitShot == InitPlasma \/ InitLazor \/ InitProject \/ InitClosest

\* The next heartbeat round: request_nodes takes every node to
\* ActivationRequest, the neighbours come to hold what they held, and
\* tick_nodes dispatches the effect nodes again, in the order of its query.
Redispatch ==
    /\ phase = "FixedUpdate" /\ ~panicked
    /\ todo = {}
    /\ charges < MaxCharges
    /\ LET shots == {c \in DOMAIN meta : meta[c] \in ShotKinds}
           k == meta[ShotCell]
       IN  \E order \in Orders(shots) :
              /\ cstate' = [c \in DOMAIN cstate |-> IF c \in shots THEN Triggered ELSE cstate[c]]
              /\ evts' = Sent(k, order)
              /\ todo' = {TickSystem(k)}
              /\ fired' = shots
    /\ firedPrev' = fired
    /\ lastSys' = "redispatch"
    /\ pre' = cstate
    /\ lastFx' = {}
    /\ hits' = NoHits
    /\ raised' = << >>
    /\ lastN' = 0
    /\ doneNow' = {}
    /\ lastBind' = NoBind
    /\ UNCHANGED <<tiles, hearts, meta, cfg, enemies, tickEvts, dirty, tileEvts, queued,
                   phase, panicked, edits, frameEdit, stable, counters, charges, pulse,
                   health, activity, rip, appstate, beat>>

NextShot ==
    \/ PlasmaTick
    \/ LazorTick
    \/ ProjectTick
    \/ ClosestInRangeTick
    \/ Redispatch

SpecShot == InitShot /\ [][NextShot]_vars

-----------------------------------------------------------------------------
(* The game under attack: the heart, a node next to it and a terrain tile,
   each at its first Health, and an enemy that attacks one of them.  The
   player may clear the tile of the heart. *)

\* the bought node
LifeNode == <<1, 0>>

\* the terrain tile
LifeTerrain == <<-1, 0>>

\* the cells the player right-clicks
LifeClicks == {ZERO}

InitLife ==
    /\ tiles = [h \in Board |-> IF h = ZERO THEN "Heart"
                                ELSE IF h = LifeNode THEN "CyberNode"
                                ELSE IF h = LifeTerrain THEN "Terrain"
                                ELSE "Unoccupied"]
    /\ hearts = {ZERO}
    /\ meta = (LifeNode :> "ClosestEntity")
    /\ cfg = (LifeNode :> << >>)
    /\ cstate = (LifeNode :> Idle)
    /\ enemies = EnemyIds
    /\ \E c \in {ZERO, LifeNode, LifeTerrain} : activity = [e \in EnemyIds |-> Occupant(c)]
    /\ health = FullHealth(tiles)
    /\ rip = 0
    /\ appstate = InGame
    /\ beat = [h \in hearts |-> FirstBeat]
    /\ tickEvts = 0
    /\ dirty = FALSE
    /\ tileEvts = 0
    /\ queued = << >>
    /\ evts = [k \in Kinds |-> << >>]
    /\ phase = "PreUpdate"
    /\ todo = {}
    /\ panicked = FALSE
    /\ edits = 0
    /\ lastSys = "init"
    /\ pre = cstate
    /\ raised = << >>
    /\ lastFx = {}
    /\ lastN = 0
    /\ fired = {}
    /\ firedPrev = {}
    /\ doneNow = {}
    /\ frameEdit = "none"
    /\ stable = FALSE
    /\ lastBind = NoBind
    /\ counters = << >>
    /\ hits = NoHits
    /\ charges = 0
    /\ pulse = << >>

NextLife ==
    \/ DestroyNodes
    \/ \E c \in LifeClicks : tiles[c] # "Unoccupied" /\ RemoveNode(c)
    \/ NoEdit
    \/ Heartbeat
    \/ RequestNodes
    \/ TickNodes
    \/ ClosestTick
    \/ Attack
    \/ Despawn
    \/ ApplyDeferred
    \/ DetectChanges
    \/ DisableDisconnected
    \/ OpenDeath
    \/ StateTransition

SpecLife == InitLife /\ [][NextLife]_vars

\* The application runs its schedules frame after frame for as long as it lives.
SpecLifeFair == SpecLife /\ WF_vars(NextLife)

-----------------------------------------------------------------------------
(* The heartbeat and the evaluators: the heart, a closest-entity node next to
   it and a lazor that takes its target from that node, both under
   observation.  The player may right-click an empty tile, which makes the
   pruning pass run. *)

\* the node without inputs
PulseSrc == <<1, 0>>

\* the lazor, its target port bound to the node without inputs
PulseCell == <<2, 0>>

\* the cells the player right-clicks
PulseClicks == {<<-1, 0>>}

InitPulse ==
    /\ tiles = TilesOf({PulseSrc, PulseCell}, {})
    /\ hearts = {ZERO}
    /\ meta = (PulseSrc :> "ClosestEntity" @@ PulseCell :> "Lazor")
    /\ cfg = (PulseSrc :> << >> @@ PulseCell :> (<<-1, 0>> :> "target"))
    /\ cstate = (PulseSrc :> Idle @@ PulseCell :> Idle)
    /\ enemies = EnemyIds
    /\ activity = << >>
    /\ health = FullHealth(tiles)
    /\ rip = 0
    /\ appstate = InGame
    /\ beat = [h \in hearts |-> FirstBeat]
    /\ tickEvts = 0
    /\ dirty = FALSE
    /\ tileEvts = 0
    /\ queued = << >>
    /\ evts = [k \in Kinds |-> << >>]
    /\ phase = "PreUpdate"
    /\ todo = {}
    /\ panicked = FALSE
    /\ edits = 0
    /\ lastSys = "init"
    /\ pre = cstate
    /\ raised = << >>
    /\ lastFx = {}
    /\ lastN = 0
    /\ fired = {}
    /\ firedPrev = {}
    /\ doneNow = {}
    /\ frameEdit = "none"
    /\ stable = FALSE
    /\ lastBind = NoBind
    /\ counters = << >>
    /\ hits = NoHits
    /\ charges = 0
    /\ pulse = [c \in {PulseSrc, PulseCell} |-> 0]

NextPulse ==
    \/ \E c \in PulseClicks : RemoveNode(c)
    \/ NoEdit
    \/ Heartbeat
    \/ RequestNodes
    \/ TickNodes
    \/ ClosestTick
    \/ LazorTick
    \/ ApplyDeferred
    \/ DetectChanges
    \/ DisableDisconnected

SpecPulse == InitPulse /\ [][NextPulse]_vars

-----------------------------------------------------------------------------
(* The properties of the scheduler *)

\* the evaluator of c's kind has been requested in the running pass
Requested(c) == \E i \in DOMAIN queued : queued[i].c = c /\ queued[i].kind = meta[c]

\* c was ActivationRequest when the last step began, and every direction bound
\* in its wiring pointed at an in-bounds cell holding a node that was Done(Ok(_))
Ready(c) ==
    /\ pre[c] = ActivationRequest
    /\ \A h \in DOMAIN cfg[c] :
          LET n == Add(c, h) IN
             /\ Length(n) <= Rad
             /\ tiles[n] = "CyberNode"
             /\ n \in DOMAIN pre
             /\ pre[n].t = "Done"
             /\ pre[n].ok

C3_Wavefront ==
    lastSys = "tick_nodes" =>
        \A b \in fired : \A h \in DOMAIN cfg[b] :
            /\ Add(b, h) \notin fired
            /\ Add(b, h) \notin doneNow

\* C4: in a heartbeat epoch without edits, the consumers of the nodes that were
\* dispatched by one scheduler pass and whose evaluator succeeds are dispatched
\* by the next pass.
C4_Progress ==
    (lastSys = "tick_nodes" /\ stable /\ enemies # {}) =>
        \A b \in DOMAIN cstate :
            ( /\ pre[b] = ActivationRequest
              /\ cfg[b] # << >>
              /\ \A h \in DOMAIN cfg[b] :
                    LET a == Add(b, h) IN
                       /\ a \in firedPrev
                       /\ a \in DOMAIN cstate
                       /\ meta[a] = "ClosestEntity"
                       /\ cfg[a] = << >> )
            => b \in fired

\* a and b each have an input bound to the other
Cycle(a, b) ==
    /\ a # b
    /\ \E h \in DOMAIN cfg[a] : Add(a, h) = b
    /\ \E h \in DOMAIN cfg[b] : Add(b, h) = a

C6_ActivationDriver ==
    /\ (lastSys = "request_nodes" /\ lastN > 0) =>
          \A c \in DOMAIN cstate :
              /\ pre[c] # Disabled => cstate[c] = ActivationRequest
              /\ pre[c] = Disabled => cstate[c] = Disabled
    /\ \A c \in DOMAIN pre \cap DOMAIN cstate :
          pre[c] = Disabled => cstate[c] # ActivationRequest

\* a pulse discarded a cached Done
C6_Witness ==
    /\ lastSys = "request_nodes" /\ lastN > 0
    /\ \E c \in DOMAIN cstate : pre[c].t = "Done" /\ cstate[c] = ActivationRequest

\* C7: several pulses read in one frame leave the states a single pulse leaves.
C7_Idempotent ==
    (lastSys = "request_nodes" /\ lastN >= 2) => cstate = RequestOnce(pre)

\* two pulses were read at once, with a node to request and one to skip
C7_Witness ==
    /\ lastSys = "request_nodes" /\ lastN >= 2
    /\ \E c \in DOMAIN cstate : pre[c] # Disabled /\ pre[c] # ActivationRequest

\* C8: no node is still Triggered when a later scheduler pass starts.
C8_Transient ==
    lastSys = "tick_nodes" => \A c \in DOMAIN pre : pre[c] # Triggered

\* the transitions the data model lists
Listed(s, t) ==
    \/ s.t \in {"Idle", "Done"} /\ t = ActivationRequest
    \/ s = ActivationRequest /\ t = Triggered
    \/ s = Triggered /\ t.t = "Done"
    \/ t = Disabled
    \/ s = Disabled /\ t = Idle

\* C9: every change of a node's state is one of the listed transitions.
C9_Transitions ==
    \A c \in DOMAIN pre \cap DOMAIN cstate :
        pre[c] # cstate[c] => Listed(pre[c], cstate[c])

\* the cells a walk from S reaches, stepping only onto cells that hold a node
RECURSIVE Grow(_)
Grow(S) ==
    LET T == S \cup {n \in Board : tiles[n] = "CyberNode"
                                     /\ \E m \in S : \E d \in Dirs : Add(m, d) = n}
    IN  IF T = S THEN S ELSE Grow(T)

\* C10: after a pruning pass a node is Disabled if and only if no walk over
\* adjacent node cells reaches its cell from a heart's cell.
C10_PruningExact ==
    (lastSys = "disable_disconnected" /\ lastN > 0) =>
        \A c \in DOMAIN cstate : (cstate[c] = Disabled) <=> (c \notin Grow(hearts))

\* a pruning pass disabled a node that had lost its way to the heart
C10_Witness ==
    /\ lastSys = "disable_disconnected" /\ lastN > 0
    /\ \E c \in DOMAIN cstate : cstate[c] = Disabled /\ pre[c] # Disabled


\* C11: a pruning pass changes the state of a node that is still reachable from
\* a heart only when that state was Disabled; a reachable node that was
\* ActivationRequest, Triggered or Done(_) keeps its state and value.
C11_PruningKeeps ==
    (lastSys = "disable_disconnected" /\ lastN > 0) =>
        \A c \in DOMAIN cstate :
            (c \in Grow(hearts) /\ pre[c] # Disabled) => cstate[c] = pre[c]

\* C12: a node that pruning has disabled holds no Done before a heartbeat has
\* requested it again: no step takes a node from Disabled to Done.
C12_DoneAfterHeartbeat ==
    \A c \in DOMAIN pre \cap DOMAIN cstate :
        pre[c] = Disabled => cstate[c].t # "Done"

\* C13: an evaluator that runs for a node a pruning pass has set to Disabled
\* writes no result and has no side effect.
C13_Cancelled ==
    lastSys \in {TickSystem(k) : k \in Kinds} =>
        \A c \in DOMAIN pre \cap DOMAIN cstate :
            pre[c] = Disabled => (cstate[c] = Disabled /\ c \notin lastFx)

\* C14: when the scheduler pass of a frame runs, the tile change made in that
\* frame has been pruned, and the heartbeat and the activation request of the
\* frame have run.
C14_FrameOrder ==
    lastSys = "tick_nodes" =>
        /\ frameEdit \in {"tile_purchased", "remove_node"} => (~dirty /\ tileEvts = 0)
        /\ todo \cap {"heartbeat", "request_nodes"} = {}

\* C15: a heartbeat pulse read in the frame of a purchase, or later, sets the
\* purchased node, connected to the heart, to ActivationRequest.
C15_NewNodeRequested ==
    (lastSys = "request_nodes" /\ lastN > 0 /\ frameEdit = "tile_purchased") =>
        \A c \in DOMAIN cstate : c \in Grow(hearts) => cstate[c] = ActivationRequest


\* the directions a port is bound to in a wiring
BoundAt(inputs, port) == {d \in DOMAIN inputs : inputs[d] = port}

\* C16: after any sequence of picks no port is bound to more than one
\* direction (a direction holds one port by construction); a pick that binds a
\* port bound to d1 to a free direction d2 removes d1 and installs d2, and leaves
\* the other ports' bindings alone.
C16_Binding ==
    /\ \A c \in DOMAIN cfg : \A port \in Ports(meta[c]) :
          Cardinality(BoundAt(cfg[c], port)) <= 1
    /\ \A c \in DOMAIN cfg : \A d \in DOMAIN cfg[c] : cfg[c][d] \in Ports(meta[c])
    /\ (lastBind # NoBind /\ BoundAt(lastBind.old, lastBind.port) # {}
                          /\ lastBind.h \notin DOMAIN lastBind.old) =>
          /\ BoundAt(cfg[lastBind.c], lastBind.port) = {lastBind.h}
          /\ \A d \in DOMAIN lastBind.old :
                lastBind.old[d] # lastBind.port =>
                    (d \in DOMAIN cfg[lastBind.c] /\ cfg[lastBind.c][d] = lastBind.old[d])
          /\ DOMAIN cfg[lastBind.c] \subseteq DOMAIN lastBind.old \cup {lastBind.h}

\* a pick moved a port to a free direction while the other port was bound
C16_Witness ==
    /\ lastBind # NoBind
    /\ BoundAt(lastBind.old, lastBind.port) # {}
    /\ lastBind.h \notin DOMAIN lastBind.old
    /\ Cardinality(DOMAIN lastBind.old) = 2
    /\ Cardinality(DOMAIN cfg[lastBind.c]) = 2



\* the round a heartbeat request started has run dry: the scheduler pass of a
\* later frame has just run, it dispatched nothing, no evaluator has an event
\* left to read, and there was no edit and no pruning since the request
RoundOver ==
    /\ lastSys = "tick_nodes"
    /\ stable
    /\ "request_nodes" \in todo
    /\ tickEvts = 0
    /\ queued = << >>
    /\ \A k \in DOMAIN evts : evts[k] = << >>

\* C19: a node with an input direction bound to a cell that holds no node
\* holds Done(Err) when the round started by the heartbeat is over.
C19_Unresolved ==
    RoundOver =>
        \A c \in DOMAIN cstate :
            ( /\ cstate[c] # Disabled
              /\ \E h \in DOMAIN cfg[c] :
                    InBounds(Add(c, h)) /\ tiles[Add(c, h)] # "CyberNode" )
            => cstate[c] = DoneErr

\* an evaluator of one of the kinds with a required input port has just run
\* for the dispatched node
Evaluated ==
    /\ lastSys \in {TickSystem(k) : k \in EvalKinds}
    /\ EvalCell \in DOMAIN pre
    /\ pre[EvalCell] = Triggered
    /\ lastN > 0

\* C17: a node dispatched while its required input port has no direction
\* binding ends in Done(Err) and has no side effect.
C17_Unconfigured ==
    (Evaluated /\ BoundAt(cfg[EvalCell], PortOf(meta[EvalCell])) = {}) =>
        (cstate[EvalCell] = DoneErr /\ lastFx = {})

\* C18: a node whose required input port is bound to a neighbour that holds
\* Done(Ok(v)), v of another variant than the expected one, ends in Done(Err),
\* has no side effect, and nothing panics.
C18_TypeMismatch ==
    ( /\ Evaluated
      /\ BoundAt(cfg[EvalCell], PortOf(meta[EvalCell])) # {}
      /\ IsDoneOk(pre[SrcCell])
      /\ pre[SrcCell].v.ty # Expects(meta[EvalCell]) )
    => (cstate[EvalCell] = DoneErr /\ lastFx = {} /\ ~panicked)

\* C20: a node of a kind that needs an entity target, whose target input holds
\* an entity that is no longer a targetable entity, ends in Done(Err).
C20_TargetVanished ==
    ( /\ Evaluated
      /\ meta[EvalCell] \in {"Lazor", "EntityPos", "EntityDirection"}
      /\ BoundAt(cfg[EvalCell], "target") # {}
      /\ IsDoneOk(pre[SrcCell])
      /\ pre[SrcCell].v.ty = "Entity"
      /\ pre[SrcCell].v.n \notin enemies )
    => cstate[EvalCell] = DoneErr

\* the nodes whose result reaches b over bound directions
RECURSIVE Upstream(_)
Upstream(S) ==
    LET T == S \cup {a \in DOMAIN cfg : \E b \in S \cap DOMAIN cfg :
                                          \E h \in DOMAIN cfg[b] : Add(b, h) = a}
    IN  IF T = S THEN S ELSE Upstream(T)

\* C21: when a node A ends in Done(Err), a node with an input bound to A is not
\* dispatched and stays ActivationRequest, and a dispatched node with no
\* dependency path to A is still evaluated: the evaluator step in which A fails
\* leaves no event of such a node unread.
C21_ErrorIsolation ==
    /\ lastSys = "tick_nodes" =>
          \A b \in DOMAIN cstate :
              ( /\ pre[b] = ActivationRequest
                /\ \E h \in DOMAIN cfg[b] :
                      Add(b, h) \in DOMAIN pre /\ pre[Add(b, h)] = DoneErr )
              => (cstate[b] = ActivationRequest /\ ~Requested(b))
    /\ \A k \in Kinds :
          (lastSys = TickSystem(k) /\ ~panicked) =>
              \A a \in DOMAIN pre \cap DOMAIN cstate :
                  (pre[a] = Triggered /\ cstate[a] = DoneErr) =>
                      \A i \in DOMAIN evts[k] :
                          (evts[k][i].live /\ evts[k][i].c \in DOMAIN cstate)
                              => a \in Upstream({evts[k][i].c})

\* a reducer has just run for the dispatched node
FoldRan ==
    /\ lastSys \in {TickSystem(k) : k \in FoldKinds}
    /\ pre[FoldCell] = Triggered
    /\ lastN > 0

\* C22: a dispatched variable-arity reducer ends in Done(Ok(_)) for every
\* subset of bound slots, whatever the nodes behind them hold or have become;
\* nothing panics.
C22_Reducers ==
    FoldRan => (~panicked /\ IsDoneOk(cstate[FoldCell]))

\* no value: the slot is unbound, or the node behind it held no Done(Ok(_))
NoVal == [ty |-> "None", n |-> 0]

\* the value the slot of that name held when the reducer ran
SlotValue(name) ==
    LET ds == BoundAt(cfg[FoldCell], name) IN
    IF ds = {} THEN NoVal
    ELSE LET n == Add(FoldCell, CHOOSE d \in ds : TRUE) IN
         IF n \in DOMAIN pre /\ pre[n].t = "Done" /\ pre[n].ok THEN pre[n].v ELSE NoVal

\* the values of the slots a, b, c, d, e, in this order
SlotInputs == <<SlotValue("a"), SlotValue("b"), SlotValue("c"), SlotValue("d"), SlotValue("e")>>

IsNumber(v) == v.ty = "Number"

IsVector(v) == v.ty = "Vec"

\* ((x1 - x2) - x3) - ..
RECURSIVE LeftDiff(_)
LeftDiff(xs) ==
    IF Len(xs) = 1 THEN xs[1].n
    ELSE LeftDiff(SubSeq(xs, 1, Len(xs) - 1)) - xs[Len(xs)].n

\* C23: NumberSubtract outputs the left fold (acc - v) over the Number values
\* of its bound slots taken in the order a, b, c, d, e, whatever directions the
\* slots are bound to: a=10, b=3, c=2 gives 5, and a=10 alone gives 10.
C23_Subtract ==
    (FoldRan /\ lastSys = "numsub_tick" /\ ~panicked) =>
        LET xs == SelectSeq(SlotInputs, IsNumber) IN
           /\ xs # << >> => cstate[FoldCell] = DoneOk(NumV(LeftDiff(xs)))
           /\ xs = <<NumV(10), NumV(3), NumV(2)>> => cstate[FoldCell] = DoneOk(NumV(5))
           /\ xs = <<NumV(10)>> => cstate[FoldCell] = DoneOk(NumV(10))

\* a=10, b=3 and c=2 were subtracted, the slots bound against the order of the
\* directions
C23_Witness ==
    /\ FoldRan /\ lastSys = "numsub_tick" /\ ~panicked
    /\ cfg[FoldCell] = (<<0, 1>> :> "a" @@ <<1, -1>> :> "b" @@ <<1, 0>> :> "c")
    /\ SlotInputs = <<NumV(10), NumV(3), NumV(2), NoVal, NoVal>>
    /\ cstate[FoldCell] = DoneOk(NumV(5))

\* the product of the x (i = 1) or y (i = 2) components
RECURSIVE Component(_, _)
Component(xs, i) ==
    IF xs = << >> THEN 1
    ELSE (IF i = 1 THEN Head(xs).x ELSE Head(xs).y) * Component(Tail(xs), i)

\* C24: VectorMultiply outputs the component-wise product of the Vector values
\* on its bound slots, and (0, 0) when no slot is bound.
C24_VectorMultiply ==
    (FoldRan /\ lastSys = "vecmul_tick" /\ ~panicked) =>
        LET xs == SelectSeq(SlotInputs, IsVector) IN
           /\ xs # << >> =>
                 cstate[FoldCell] = DoneOk(Vec2V(Component(xs, 1), Component(xs, 2)))
           /\ cfg[FoldCell] = << >> => cstate[FoldCell] = DoneOk(Vec2V(0, 0))

\* (2, 3) and (-1, 2) were multiplied to (-2, 6)
C24_Witness ==
    /\ FoldRan /\ lastSys = "vecmul_tick" /\ ~panicked
    /\ SelectSeq(SlotInputs, IsVector) = <<Vec2V(2, 3), Vec2V(-1, 2)>>
    /\ cstate[FoldCell] = DoneOk(Vec2V(-2, 6))

\* what one input adds to the list: nothing for no value and for Empty, its
\* elements for a List, itself otherwise
Contribution(v) ==
    CASE v.ty \in {"None", "Empty"} -> << >>
      [] v.ty = "List" -> v.l
      [] OTHER -> <<v>>

PlasmaRan ==
    /\ lastSys = "plasma_tick"
    /\ lastN > 0
    /\ pre[ShotCell] = Triggered
    /\ pre[TgtCell].t = "Done" /\ pre[TgtCell].ok /\ pre[TgtCell].v.ty = "Vec"

\* the cannon with threshold t, after its n-th evaluation from counter 0: it
\* outputs 0 and keeps charging unless n is a multiple of t; then it fires,
\* outputs t and its counter is 0 again
Charged(t, n) ==
    /\ cstate[ShotCell] = DoneOk(NumV(IF n % t = 0 THEN t ELSE 0))
    /\ (ShotCell \in lastFx) <=> (n % t = 0)
    /\ ShotCell \in DOMAIN counters
    /\ counters[ShotCell] = n % t

\* C26: with a constant threshold T >= 1 and the target resolved in every
\* round, the cannon, starting from counter 0, outputs 0 on its first T-1
\* evaluations, outputs T and fires on the T-th, and its counter is 0 right
\* after firing (T = 3: outputs 0, 0, 3).
C26_ChargeSequence ==
    ( /\ PlasmaRan
      /\ BoundAt(cfg[ShotCell], "threshold") # {}
      /\ pre[ThrCell].t = "Done" /\ pre[ThrCell].ok /\ pre[ThrCell].v.ty = "Number"
      /\ pre[ThrCell].v.n >= 1 )
    => Charged(pre[ThrCell].v.n, charges)

\* the third evaluation with threshold 3 fired and output 3
C26_Witness ==
    /\ PlasmaRan
    /\ BoundAt(cfg[ShotCell], "threshold") # {}
    /\ pre[ThrCell] = DoneOk(NumV(3))
    /\ charges = 3
    /\ cstate[ShotCell] = DoneOk(NumV(3))
    /\ ShotCell \in lastFx
    /\ counters[ShotCell] = 0

\* "default is max: 10"
DefaultThreshold == 10

\* C27: a cannon whose threshold port is not wired charges to the default
\* threshold of 10: it outputs 0 and does not fire before its 10th evaluation.
C27_DefaultThreshold ==
    (PlasmaRan /\ BoundAt(cfg[ShotCell], "threshold") = {}) =>
        Charged(DefaultThreshold, charges)

\* lazor_tick has just run for the lazor, its target port bound
LazorRan ==
    /\ lastSys = "lazor_tick"
    /\ lastN > 0
    /\ pre[ShotCell] = Triggered
    /\ BoundAt(cfg[ShotCell], "target") # {}

\* C28: a lazor evaluation whose target input holds Done(Ok(EntityRef t)) takes
\* exactly 15 Health from t, once, when t exists, takes none from any other
\* entity and leaves the node Done(Ok(Empty)); when t no longer exists the node
\* ends in Done(Err) and no Health changes.
C28_LazorDamage ==
    (LazorRan /\ pre[TgtCell].t = "Done" /\ pre[TgtCell].ok /\ pre[TgtCell].v.ty = "Entity") =>
        LET t == pre[TgtCell].v.n IN
           /\ t \in enemies => (hits = (t :> 15) /\ cstate[ShotCell] = DoneOk(EmptyV))
           /\ t \notin enemies => (hits = << >> /\ cstate[ShotCell] = DoneErr)

\* entity 2 was hit while two other entities were about
C28_Witness ==
    /\ LazorRan
    /\ pre[TgtCell] = DoneOk(EntV(2))
    /\ enemies = {1, 2, 3}
    /\ hits = (2 :> 15)
    /\ cstate[ShotCell] = DoneOk(EmptyV)

\* the TileType a cell had before the last step
TileBefore(c) == IF c \in DOMAIN raised THEN raised[c] ELSE tiles[c]

\* the cell a project-tile node was aimed at when its evaluator ran
Aim(p, src) == <<pre[src].v.x, pre[src].v.y>>

\* the project-tile node p, fed by src, ended as its aim demands: Done(Err) and
\* the cell untouched when the aim is off the board or was not Unoccupied,
\* the cell Terrain otherwise
Projected(p, src) ==
    LET t == Aim(p, src) IN
    IF Length(t) > Rad THEN cstate[p] = DoneErr
    ELSE IF TileBefore(t) # "Unoccupied"
         THEN cstate[p] = DoneErr /\ tiles[t] = TileBefore(t)
    ELSE tiles[t] = "Terrain" /\ cstate[p] \in {DoneOk(EmptyV), DoneErr}

\* C29: project_tick changes no cell that is not Unoccupied; a node aimed off
\* the board or at a heart, node or terrain cell ends in Done(Err) and leaves
\* the cell as it was; a node aimed at an Unoccupied cell turns it into Terrain
\* and ends in Done(Ok(Empty)); of two nodes aimed at the same Unoccupied cell
\* in one pass exactly one succeeds.
C29_ProjectTile ==
    (lastSys = "project_tick" /\ lastN = 2) =>
        /\ \A c \in DOMAIN raised : raised[c] = "Unoccupied" /\ tiles[c] = "Terrain"
        /\ Projected(ShotCell, TgtCell)
        /\ Projected(ShotCell2, TgtCell2)
        /\ \A c \in DOMAIN raised :
              Cardinality({p \in {ShotCell, ShotCell2} : cstate[p] = DoneOk(EmptyV)
                              /\ Aim(p, IF p = ShotCell THEN TgtCell ELSE TgtCell2) = c}) = 1
        /\ \A p \in {ShotCell, ShotCell2} :
              cstate[p] = DoneOk(EmptyV)
                 => Aim(p, IF p = ShotCell THEN TgtCell ELSE TgtCell2) \in DOMAIN raised

\* two nodes were aimed at the same free cell: one raised the terrain, the
\* other ended in Done(Err)
C29_Witness ==
    /\ lastSys = "project_tick" /\ lastN = 2
    /\ Aim(ShotCell, TgtCell) = Aim(ShotCell2, TgtCell2)
    /\ DOMAIN raised = {Aim(ShotCell, TgtCell)}
    /\ {cstate[ShotCell], cstate[ShotCell2]} = {DoneOk(EmptyV), DoneErr}

\* C30: ClosestEntity ends in Done(Ok(EntityRef e)) with e a targetable entity
\* within hex distance 8 of the node and no entity in range nearer than e, and
\* in Done(Err) exactly when no entity is in range.
C30_Closest ==
    (lastSys = "closest_tick" /\ lastN > 0 /\ pre[ShotCell] = Triggered) =>
        LET near == {e \in enemies : Distance(Spot(e), ShotCell) <= 8} IN
           /\ near = {} <=> cstate[ShotCell] = DoneErr
           /\ near # {} =>
                 \E e \in near :
                    /\ cstate[ShotCell] = DoneOk(EntV(e))
                    /\ \A f \in near : Distance(Spot(e), ShotCell) <= Distance(Spot(f), ShotCell)

\* C35: a pick that is rejected because the picked direction is bound to another
\* port leaves the wiring of the node as it was; the picked port keeps the
\* direction it was bound to.
C35_RejectedBind ==
    (lastBind # NoBind /\ lastBind.h \in DOMAIN lastBind.old
                       /\ lastBind.old[lastBind.h] # lastBind.port) =>
        cfg[lastBind.c] = lastBind.old

\* C40: an evaluator run in which the evaluation of one node fails (the node
\* ends in Done(Err)) still reads the events of the other nodes of its kind that
\* were dispatched with it: none of them is left unread for a node that exists.
C40_NoSkip ==
    \A k \in Kinds :
        ( /\ lastSys = TickSystem(k)
          /\ ~panicked
          /\ \E a \in DOMAIN pre \cap DOMAIN cstate :
                pre[a] = Triggered /\ cstate[a] = DoneErr )
        => \A i \in DOMAIN evts[k] : ~evts[k][i].live

\* C34: an evaluator that finds only events of node instances that were removed
\* after their dispatch drops them: it does not panic, it changes no node state
\* and it has no side effect, whatever the kind of the node.
C34_RemovedDropped ==
    [][\A k \in Kinds :
          ( /\ lastSys' = TickSystem(k)
            /\ evts[k] # << >>
            /\ \A i \in DOMAIN evts[k] : ~evts[k][i].live )
          => (~panicked' /\ cstate' = cstate /\ lastFx' = {} /\ hits' = NoHits)]_vars

\* C33: when the evaluator reads the event of a dispatched node one of whose
\* bound directions points at a cell that holds no node instance any more (the
\* player removed a node in the PreUpdate of the frame), the port lookup finds
\* nothing: the node ends in Done(Err) and nothing panics.
C33_NeighbourGone ==
    [][\A k \in Kinds :
          ( /\ lastSys' = TickSystem(k)
            /\ evts[k] # << >>
            /\ Head(evts[k]).live
            /\ frameEdit = "remove_node"
            /\ \E h \in DOMAIN cfg[Head(evts[k]).c] :
                  /\ InBounds(Add(Head(evts[k]).c, h))
                  /\ tiles[Add(Head(evts[k]).c, h)] = "Unoccupied" )
          => (~panicked' /\ cstate'[Head(evts[k]).c] = DoneErr)]_vars

-----------------------------------------------------------------------------
(* The properties of Health and of the end of the game *)

\* C39: as long as a heart exists with Health > 0, the tile of its cell holds
\* the Heart occupant: no right click of the player takes it away.
C39_HeartCell ==
    \A h \in hearts : health[HeartAt(h)] > 0 => tiles[h] = "Heart"

\* C38: whenever a heart fires (heartbeat sends a Tick and sets the duration of
\* the timer to 100 / Health), its Health is > 0, so the duration is finite
\* and positive and the step does not panic.
C38_BeatHealth ==
    [][(lastSys' = "heartbeat" /\ tickEvts' = tickEvts + 1) =>
          /\ \A h \in hearts : health[HeartAt(h)] > 0
          /\ ~panicked']_vars

\* C32: when the PreUpdate schedule, and with it destroy_nodes, has run, every
\* tile that holds an occupant (heart, node or terrain) holds one that exists
\* with Health > 0, the tile of every other one being Unoccupied; and a node
\* instance goes away only with Health <= 0, by a right click of the player,
\* or with the board when the game ends.
C32_DestroyStep ==
    /\ [](lastSys \in {"destroy_nodes", "none", "remove_node"} =>
             \A c \in Board :
                 tiles[c] \in {"Heart", "CyberNode", "Terrain"} =>
                     (Occupant(c) \in DOMAIN health /\ health[Occupant(c)] > 0))
    /\ [][\A c \in DOMAIN cstate :
              c \notin DOMAIN cstate' =>
                  \/ health[NodeAt(c)] <= 0
                  \/ lastSys' \in {"remove_node", "deinit"}]_vars

\* C31: a heart whose Health is <= 0 is removed and the application leaves
\* Appstate::Game for Appstate::Death; once there, no heartbeat is sent, no
\* node is set to ActivationRequest and none is dispatched.
C31_HeartDeath ==
    /\ (\E h \in hearts : health[HeartAt(h)] <= 0) ~> (appstate.cur = "Death")
    /\ [][appstate.cur = "Death" =>
             (cstate' = cstate /\ queued' = queued /\ tickEvts' = tickEvts)]_vars


\* C37: the destruction of a terrain occupant changes no node's lifecycle
\* state: when the pruning pass reads a TileChanged event that stems from
\* nothing but a terrain tile turning Unoccupied (no edit was made, the heart
\* and the node still hold their tiles), every heart-connected node keeps the
\* state it had before the pass.
C37_TerrainNeutral ==
    ( /\ lastSys = "disable_disconnected"
      /\ lastN > 0
      /\ edits = 0
      /\ tiles[LifeTerrain] = "Unoccupied"
      /\ \A h \in hearts : tiles[h] = "Heart"
      /\ tiles[LifeNode] = "CyberNode" )
    => \A c \in DOMAIN cstate \cap DOMAIN pre :
          c \in Grow(hearts) => cstate[c] = pre[c]

-----------------------------------------------------------------------------
(* The properties of the heartbeat's pulses *)

\* C36: between two consecutive heartbeat pulses the evaluator of a node runs
\* at most once: no observed node counts a second run of its evaluator since
\* the last Tick was sent.
C36_OncePerPulse ==
    \A c \in DOMAIN pulse : pulse[c] <= 1

=============================================================================
